---------------------------- MODULE Spec2Model ----------------------------
(***************************************************************************)
(* Verification model of the portrait/biography pipeline of MonkeyOCR:     *)
(*                                                                         *)
(*   - the robust response parser of BookPortraitAssociator                *)
(*     (extract_json_from_response, fix_json_string, with json.loads and   *)
(*     the regular expressions computed character by character),           *)
(*   - the per-book run loop of BookPortraitAssociator.process_input,      *)
(*   - the reconciliation script collecting_all_csv_files_Dolphin.py.      *)
(*                                                                         *)
(* Each part has its own specification (SpecParse, SpecRun, SpecMerge)     *)
(* over the shared variable tuple; a specification leaves the variables of *)
(* the other parts at their idle values.                                   *)
(***************************************************************************)
EXTENDS Integers, Sequences, FiniteSets, TLC

VARIABLES
    resp,            \* parser: the oracle's raw response text, kept by its parts
    parsed,          \* parser: outcome of extract_json_from_response(resp)
    pc,              \* run: where process_input stands; "idle" before a run
    skip_existing,   \* run: the parameter of process_input
    idx,             \* run: index in books of the book the loop is at
    results,         \* run: results["books"]
    processed_books, \* run: the list processed_books
    skipped_books,   \* run: the list skipped_books
    reply,           \* run: how the oracle call for the current book ended
    oracle_calls,    \* run: oracle requests sent for each book in this run
    associations,    \* run: the associations analyze_book_portraits returned
    book_result,     \* run: the book_result about to be written
    files,           \* disk: the per-book output files
    combined,        \* disk: all_books_portrait_associations.json, by the books
                     \* whose results it holds
    mpc,                     \* merge script: where it stands
    df_main,                 \* merge script: the base dataset
    df_failed,               \* merge script: the retry dataset
    df_merged,               \* merge script: the base with the retry rows applied
    failed_row,              \* merge script: index of the retry row the loop is at
    df_portrait_single,      \* merge script: portraits found on the person's page
    df_next_page_portraits,  \* merge script: portraits found on the next page
    df_merged_portraits,     \* merge script: the two portrait datasets merged
    output_final,            \* disk: the final dataset
    listing,                 \* grouper: the names glob("*.md") yields, in its order
    grouped,                 \* grouper: what find_markdown_files returned
    markdown_content,        \* segmenter: the text read from the markdown file
    names_list,              \* segmenter: the ordered names
    chunks,                  \* segmenter: what chunk_markdown_by_names returned
    entries,                 \* names: the rows collected from the JSON files
    df,                      \* names: what extract_names_to_dataframe returned
    bpc,                     \* biographies: where the two programs are
    csv_file,                \* disk: the CSV of names and chunks
    bio_df,                  \* biographies: the DataFrame read from the CSV
    index,                   \* biographies: the rows process_csv has been through
    biographies,             \* biographies: the records emitted, in order
    failed_extractions,      \* biographies: the rows counted as failed
    oracle_rows,             \* biographies: the rows extract_biography was called for
    ppc,                     \* portraits: where the script is
    json_books,              \* portraits: content['books'] of all_books_names.json
    md_files,                \* portraits: the digibok*.md files, name and content
    names_df,                \* portraits: what extract_names_to_dataframe returned
    files_starting_with_figures, \* portraits: what the scan of the files returned
    portraits_df,            \* portraits: what associate_portraits_with_names returned
    epc,                     \* engine: where process_book is
    page_text,               \* engine: the content of the book's page file
    figures_dir,             \* engine: the figures directory beside the pages
    loaded,                  \* engine: the images of the page and their counts
    engine_reply,            \* engine: what the oracle did with the call
    engine_result,           \* engine: what process_book returned
    engine_file              \* disk: the book's output file

parseVars == <<resp, parsed>>
runVars == <<pc, skip_existing, idx, results, processed_books, skipped_books,
             reply, oracle_calls, associations, book_result, files, combined>>
mergeVars == <<mpc, df_main, df_failed, df_merged, failed_row, df_portrait_single,
               df_next_page_portraits, df_merged_portraits, output_final>>
groupVars == <<listing, grouped>>
chunkVars == <<markdown_content, names_list, chunks>>
namesVars == <<entries, df>>
bioVars == <<bpc, csv_file, bio_df, index, biographies, failed_extractions, oracle_rows>>
portraitVars == <<ppc, json_books, md_files, names_df, files_starting_with_figures,
                  portraits_df>>
engineVars == <<epc, page_text, figures_dir, loaded, engine_reply, engine_result,
                engine_file>>
vars == <<parseVars, runVars, mergeVars, groupVars, chunkVars, namesVars, bioVars,
          portraitVars, engineVars>>

\* the variables each part leaves alone
notParse == <<runVars, mergeVars, groupVars, chunkVars, namesVars, bioVars, portraitVars,
    engineVars>>
notRun == <<parseVars, mergeVars, groupVars, chunkVars, namesVars, bioVars, portraitVars,
    engineVars>>
notMerge == <<parseVars, runVars, groupVars, chunkVars, namesVars, bioVars, portraitVars,
    engineVars>>
notGroup == <<parseVars, runVars, mergeVars, chunkVars, namesVars, bioVars, portraitVars,
    engineVars>>
notChunk == <<parseVars, runVars, mergeVars, groupVars, namesVars, bioVars, portraitVars,
    engineVars>>
notNames == <<parseVars, runVars, mergeVars, groupVars, chunkVars, bioVars, portraitVars,
    engineVars>>
notBio == <<parseVars, runVars, mergeVars, groupVars, namesVars, portraitVars,
    engineVars>>
notPortrait == <<parseVars, runVars, mergeVars, groupVars, chunkVars, namesVars, bioVars,
    engineVars>>
notEngine == <<parseVars, runVars, mergeVars, groupVars, chunkVars, namesVars, bioVars,
    portraitVars>>

(***************************************************************************)
(* Characters.  A text is a sequence of one-character strings.             *)
(***************************************************************************)
QT == "\""
LF == "\n"
CR == "\r"
BS == "\\"
\* the backtick of a code fence (written "~": SANY reads a backtick as a quote)
BT == "~"
\* One symbol standing for a run of more than 4300 decimal digits: an integer
\* literal that json.loads refuses with ValueError (the limit of the interpreter on
\* int/str conversion), not with JSONDecodeError.  To every regular
\* expression it is an ordinary non-space, non-bracket character.
HugeInt == "H"

Digits == {"1", HugeInt}
Whitespace == {" ", LF, CR}
Fence == <<BT, BT, BT>>
JsonTag == <<"j", "s", "o", "n">>

(***************************************************************************)
(* Text helpers.                                                           *)
(***************************************************************************)
RECURSIVE FindChar(_, _, _)
\* first index >= i holding character c, 0 when there is none
FindChar(t, c, i) ==
    IF i > Len(t) THEN 0
    ELSE IF t[i] = c THEN i
    ELSE FindChar(t, c, i + 1)

RECURSIVE RFindChar(_, _, _)
\* last index <= i holding character c, 0 when there is none
RFindChar(t, c, i) ==
    IF i < 1 THEN 0
    ELSE IF t[i] = c THEN i
    ELSE RFindChar(t, c, i - 1)

RECURSIVE SkipWs(_, _)
\* \s* (and json's whitespace skipping): first index >= i that holds no space
SkipWs(t, i) ==
    IF i <= Len(t) /\ t[i] \in Whitespace THEN SkipWs(t, i + 1) ELSE i

RECURSIVE RSkipWs(_, _)
RSkipWs(t, i) ==
    IF i >= 1 /\ t[i] \in Whitespace THEN RSkipWs(t, i - 1) ELSE i

\* str.strip()
Strip(t) == SubSeq(t, SkipWs(t, 1), RSkipWs(t, Len(t)))

HasPrefixAt(t, p, i) ==
    /\ i + Len(p) - 1 <= Len(t)
    /\ SubSeq(t, i, i + Len(p) - 1) = p

(***************************************************************************)
(* json.loads, on the characters of the model's alphabet: arrays, objects, *)
(* strings (strict: a raw control character ends the parse in error),      *)
(* integers.  A value is [t, v]: t its type, v its content.                *)
(***************************************************************************)
JStr(s) == [t |-> "str", v |-> s]
JNum(s) == [t |-> "num", v |-> s]
JArr(s) == [t |-> "arr", v |-> s]
JObj(s) == [t |-> "obj", v |-> s]
JNone == [t |-> "none", v |-> <<>>]
\* the literals true and false, and null
JBool(b) == [t |-> "bool", v |-> <<b>>]
JNull == [t |-> "null", v |-> <<>>]

JOk(p, x) == [st |-> "ok", pos |-> p, val |-> x]
\* json.JSONDecodeError
JDecodeError == [st |-> "JSONDecodeError", pos |-> 0, val |-> JNone]
\* ValueError that is not a JSONDecodeError (integer literal too long)
JValueError == [st |-> "ValueError", pos |-> 0, val |-> JNone]

RECURSIVE ScanString(_, _, _)
\* py_scanstring with strict=True; i is the index after the opening quote
ScanString(t, i, acc) ==
    IF i > Len(t) THEN JDecodeError
    ELSE IF t[i] = QT THEN JOk(i + 1, JStr(acc))
    ELSE IF t[i] \in {LF, CR} THEN JDecodeError
    ELSE IF t[i] = BS THEN
        IF i + 1 > Len(t) THEN JDecodeError
        ELSE IF t[i + 1] = "n" THEN ScanString(t, i + 2, Append(acc, LF))
        ELSE IF t[i + 1] = "r" THEN ScanString(t, i + 2, Append(acc, CR))
        ELSE IF t[i + 1] \in {QT, BS} THEN ScanString(t, i + 2, Append(acc, t[i + 1]))
        ELSE JDecodeError
    ELSE ScanString(t, i + 1, Append(acc, t[i]))

RECURSIVE NumberEnd(_, _)
\* index after the digits starting at i
NumberEnd(t, i) ==
    IF i <= Len(t) /\ t[i] \in Digits THEN NumberEnd(t, i + 1) ELSE i

ScanNumber(t, i) ==
    LET e == NumberEnd(t, i)
        lit == SubSeq(t, i, e - 1)
    IN  IF \E k \in 1..Len(lit) : lit[k] = HugeInt
        THEN JValueError
        ELSE JOk(e, JNum(lit))

RECURSIVE DictSet(_, _, _, _)
\* dict[key] = value: a repeated key keeps its place and takes the new value
DictSet(d, k, x, i) ==
    IF i > Len(d) THEN Append(d, <<k, x>>)
    ELSE IF d[i][1] = k THEN [d EXCEPT ![i] = <<k, x>>]
    ELSE DictSet(d, k, x, i + 1)

RECURSIVE ScanOnce(_, _), ParseArray(_, _, _), ParseObject(_, _, _)
\* scan_once: the value starting exactly at index i
ScanOnce(t, i) ==
    IF i > Len(t) THEN JDecodeError
    ELSE IF t[i] = QT THEN ScanString(t, i + 1, <<>>)
    ELSE IF t[i] = "{" THEN
        LET k == SkipWs(t, i + 1)
        IN  IF k <= Len(t) /\ t[k] = "}" THEN JOk(k + 1, JObj(<<>>))
            ELSE ParseObject(t, k, <<>>)
    ELSE IF t[i] = "[" THEN
        LET k == SkipWs(t, i + 1)
        IN  IF k <= Len(t) /\ t[k] = "]" THEN JOk(k + 1, JArr(<<>>))
            ELSE ParseArray(t, k, <<>>)
    ELSE IF t[i] \in Digits THEN ScanNumber(t, i)
    ELSE IF HasPrefixAt(t, <<"t", "r", "u", "e">>, i) THEN JOk(i + 4, JBool("true"))
    ELSE IF HasPrefixAt(t, <<"f", "a", "l", "s", "e">>, i) THEN JOk(i + 5, JBool("false"))
    ELSE IF HasPrefixAt(t, <<"n", "u", "l", "l">>, i) THEN JOk(i + 4, JNull)
    ELSE JDecodeError

\* the elements of an array; i is the index where the next element starts
ParseArray(t, i, acc) ==
    LET r == ScanOnce(t, i)
    IN  IF r.st # "ok" THEN r
        ELSE LET k == SkipWs(t, r.pos)
             IN  IF k > Len(t) THEN JDecodeError
                 ELSE IF t[k] = "]" THEN JOk(k + 1, JArr(Append(acc, r.val)))
                 ELSE IF t[k] = ","
                      THEN ParseArray(t, SkipWs(t, k + 1), Append(acc, r.val))
                 ELSE JDecodeError

\* the members of an object; i is the index where the next key's quote must be
ParseObject(t, i, acc) ==
    IF i > Len(t) \/ t[i] # QT THEN JDecodeError
    ELSE
    LET key == ScanString(t, i + 1, <<>>)
    IN  IF key.st # "ok" THEN key
        ELSE
        LET c == SkipWs(t, key.pos)
        IN  IF c > Len(t) \/ t[c] # ":" THEN JDecodeError
            ELSE
            LET r == ScanOnce(t, SkipWs(t, c + 1))
            IN  IF r.st # "ok" THEN r
                ELSE
                LET k == SkipWs(t, r.pos)
                    d == DictSet(acc, key.val.v, r.val, 1)
                IN  IF k > Len(t) THEN JDecodeError
                    ELSE IF t[k] = "}" THEN JOk(k + 1, JObj(d))
                    ELSE IF t[k] = "," THEN ParseObject(t, SkipWs(t, k + 1), d)
                    ELSE JDecodeError

\* json.loads(t): one value, surrounded by whitespace only
JsonLoads(t) ==
    LET r == ScanOnce(t, SkipWs(t, 1))
    IN  IF r.st # "ok" THEN r
        ELSE IF SkipWs(t, r.pos) <= Len(t) THEN JDecodeError
        ELSE r

(***************************************************************************)
(* The regular expressions of extract_json_from_response, each computed as *)
(* re's backtracking search computes it (all are used with re.DOTALL).     *)
(***************************************************************************)
RECURSIVE NestedArrayEnd(_, _)
\* r'\[(?:[^[\]]*|\[[^\]]*\])*\]' after its opening bracket: the index of the
\* closing bracket, 0 when the pattern does not match from here.  A "[" can
\* only be taken by the second alternative, which runs to the first "]".
NestedArrayEnd(t, i) ==
    IF i > Len(t) THEN 0
    ELSE IF t[i] = "]" THEN i
    ELSE IF t[i] = "["
         THEN LET q == FindChar(t, "]", i + 1)
              IN  IF q = 0 THEN 0 ELSE NestedArrayEnd(t, q + 1)
    ELSE NestedArrayEnd(t, i + 1)

RECURSIVE FindAllNested(_, _)
\* re.findall of the nested-array pattern, searching from index s
FindAllNested(t, s) ==
    IF s > Len(t) THEN <<>>
    ELSE IF t[s] = "[" /\ NestedArrayEnd(t, s + 1) # 0
         THEN LET e == NestedArrayEnd(t, s + 1)
              IN  <<SubSeq(t, s, e)>> \o FindAllNested(t, e + 1)
    ELSE FindAllNested(t, s + 1)

RECURSIVE LazyClose(_, _)
\* (\[.*?\])\s*``` after the opening bracket: the first "]" at or after j
\* that is followed by optional whitespace and a fence; 0 when there is none
LazyClose(t, j) ==
    LET q == FindChar(t, "]", j)
    IN  IF q = 0 THEN 0
        ELSE IF HasPrefixAt(t, Fence, SkipWs(t, q + 1)) THEN q
        ELSE LazyClose(t, q + 1)

RECURSIVE FindAllFenced(_, _, _)
\* re.findall of  open \s* (\[.*?\]) \s* ```  searching from index s, where
\* open is ```json or ```: the list of what group 1 matched
FindAllFenced(t, open, s) ==
    IF s > Len(t) THEN <<>>
    ELSE LET k == SkipWs(t, s + Len(open))
             j == LazyClose(t, k + 1)
         IN  IF /\ HasPrefixAt(t, open, s)
                /\ k <= Len(t)
                /\ t[k] = "["
                /\ j # 0
             THEN <<SubSeq(t, k, j)>>
                  \o FindAllFenced(t, open, SkipWs(t, j + 1) + Len(Fence))
             ELSE FindAllFenced(t, open, s + 1)

\* re.search(r'\[.*\]'): from the first "[" to the last "]"; <<>> when no match
ArrayLike(t) ==
    LET f == FindChar(t, "[", 1)
        l == RFindChar(t, "]", Len(t))
    IN  IF f # 0 /\ l > f THEN SubSeq(t, f, l) ELSE <<>>

(***************************************************************************)
(* fix_json_string:                                                        *)
(*   re.sub(r'(?<=: ")(.*?)(?=")', escape newlines of group 1, json_str)   *)
(* The pattern is compiled without re.DOTALL: "." does not match LF.       *)
(***************************************************************************)
RECURSIVE EscapeNewlines(_)
\* m.group(1).replace('\n', '\\n').replace('\r', '\\r')
EscapeNewlines(s) ==
    IF s = <<>> THEN <<>>
    ELSE (IF Head(s) = LF THEN <<BS, "n">>
          ELSE IF Head(s) = CR THEN <<BS, "r">>
          ELSE <<Head(s)>>) \o EscapeNewlines(Tail(s))

\* (?<=: ") at the position before index p
LookBehind(t, p) ==
    p >= 4 /\ t[p - 3] = ":" /\ t[p - 2] = " " /\ t[p - 1] = QT

\* "." without DOTALL
Dot(c) == c # LF

RECURSIVE LazyDot(_, _)
\* (.*?)(?=") from index q: the index of the first quote reached over
\* characters "." matches; 0 when a newline or the end comes first
LazyDot(t, q) ==
    IF q > Len(t) THEN 0
    ELSE IF t[q] = QT THEN q
    ELSE IF Dot(t[q]) THEN LazyDot(t, q + 1)
    ELSE 0

RECURSIVE SubFrom(_, _, _)
\* re.sub scanning from the position before index p; adv: the previous match
\* was empty and ended here, so a match at p must consume a character
SubFrom(t, p, adv) ==
    IF p > Len(t) THEN <<>>
    ELSE LET q == IF ~LookBehind(t, p) THEN 0
                  ELSE IF ~adv THEN LazyDot(t, p)
                  ELSE IF Dot(t[p]) THEN LazyDot(t, p + 1)
                  ELSE 0
         IN  IF q # 0
             THEN EscapeNewlines(SubSeq(t, p, q - 1)) \o SubFrom(t, q, q = p)
             ELSE <<t[p]>> \o SubFrom(t, p + 1, FALSE)

fix_json_string(json_str) == SubFrom(json_str, 1, FALSE)

(***************************************************************************)
(* extract_json_from_response.  Its outcome is                             *)
(*   [out |-> "return", data |-> the list returned, exc |-> ""]  or        *)
(*   [out |-> "raise",  data |-> <<>>, exc |-> the exception's type].      *)
(***************************************************************************)
Return(list) == [out |-> "return", data |-> list, exc |-> ""]
Raise(e) == [out |-> "raise", data |-> <<>>, exc |-> e]
NoList == [out |-> "none", data |-> <<>>, exc |-> ""]

\* json_patterns, in the order of the list: the matches of each pattern
json_patterns(t) ==
    <<FindAllNested(t, 1),
      FindAllFenced(t, Fence \o JsonTag, 1),
      FindAllFenced(t, Fence, 1)>>

RECURSIVE TryMatches(_, _)
\* the loops over the patterns and their matches: the first match that loads
\* as a list is returned; only json.JSONDecodeError is caught
TryMatches(matches, i) ==
    IF i > Len(matches) THEN NoList
    ELSE LET r == JsonLoads(Strip(matches[i]))
         IN  IF r.st = "ok" /\ r.val.t = "arr" THEN Return(r.val.v)
             ELSE IF r.st \in {"ok", "JSONDecodeError"}
                  THEN TryMatches(matches, i + 1)
             ELSE Raise(r.st)

\* the repair of the array-like span; every Exception is caught here
TryFixed(t) ==
    LET r == JsonLoads(fix_json_string(ArrayLike(t)))
    IN  IF ArrayLike(t) # <<>> /\ r.st = "ok" /\ r.val.t = "arr"
        THEN Return(r.val.v)
        ELSE Return(<<>>)

extract_json_from_response(response_text) ==
    LET pats == json_patterns(response_text)
        strict == TryMatches(pats[1] \o pats[2] \o pats[3], 1)
    IN  IF strict.out # "none" THEN strict ELSE TryFixed(response_text)

(***************************************************************************)
(* The responses the parser is applied to.  A response is kept by its     *)
(* parts: text before, an optional code fence around the body, text after. *)
(***************************************************************************)
\* length up to which every text over BracketChars is a body
MaxBodyLen == 4

BracketChars == {"[", "]", "1", ","}

ShortBodies == UNION {[1..n -> BracketChars] : n \in 0..MaxBodyLen}

ObjOf(x) == <<"{", QT, "a", QT, ":", " ">> \o x \o <<"}">>
StrOf(x) == <<QT>> \o x \o <<QT>>

LongBodies ==
    { <<"[">> \o ObjOf(<<"1">>) \o <<"]">>,                     \* [{"a": 1}]
      <<"[">> \o ObjOf(StrOf(<<"a">>)) \o <<"]">>,              \* [{"a": "a"}]
      <<"[">> \o ObjOf(StrOf(<<>>)) \o <<"]">>,                 \* [{"a": ""}]
      <<"[">> \o ObjOf(StrOf(<<"a", LF, "a">>)) \o <<"]">>,     \* raw newline
      <<"[">> \o ObjOf(StrOf(<<"a", CR, "a">>)) \o <<"]">>,     \* raw return
      <<"[">> \o ObjOf(StrOf(<<CR>>)) \o <<",", CR, QT, "j", QT, ":", " ", "1", "}", "]">>,
      <<"[">> \o ObjOf(StrOf(<<"a", "]">>)) \o <<"]">>,         \* [{"a": "a]"}]
      <<"[">> \o ObjOf(<<"[", "1", "]">>) \o <<",", " ", "{", QT, "a">>,  \* cut off
      <<"[", "[", "[", "1", "]", "]", ",", "[", "1", "]", "]">>, \* [[[1]],[1]]
      <<"[", "[", "1", "]", ",", "[", "1", "]", "]">>,          \* [[1],[1]]
      <<"[", "1", HugeInt, "]">>,                               \* integer too long
      <<"a", " ", "a">> }                                       \* no bracket

Befores == { <<>>, <<"a", " ">>, <<"[", "1", ",", "1", "]", " ">> }
Afters == { <<>>, <<" ", "a">>, <<" ", "[", "1", ",", "1", "]">> }
Wraps == {"none", "json", "plain"}

Responses ==
    [pre : Befores, wrap : Wraps, body : LongBodies, post : Afters]
    \cup [pre : {<<>>}, wrap : {"none"}, body : ShortBodies, post : {<<>>}]

\* the raw text of a response
Text(r) ==
    IF r.wrap = "none" THEN r.pre \o r.body \o r.post
    ELSE r.pre \o Fence \o (IF r.wrap = "json" THEN JsonTag ELSE <<>>) \o <<LF>>
         \o r.body \o <<LF>> \o Fence \o r.post

NotCalled == [out |-> "pending", data |-> <<>>, exc |-> ""]

(***************************************************************************)
(* BookPortraitAssociator.process_input: one process at a time works       *)
(* through the books found; the per-book output files stay on disk from    *)
(* one run to the next.                                                    *)
(***************************************************************************)
\* number of books find_markdown_files returns
NumBooks == 2

BookName == <<"b1", "b2", "b3", "b4">>

\* books.items(): the books in the order the loop takes them
books == [i \in 1..NumBooks |-> BookName[i]]
Books == {books[i] : i \in 1..NumBooks}

\* a book's entry in results["books"], and what a per-book file holds:
\* kind tells the dictionary's shape, error is its "error" text
Res(k, a, s, e) == [kind |-> k, associations |-> a, status |-> s, error |-> e]
NoRes == Res("none", <<>>, "none", "")

AbsentFile == [st |-> "absent", content |-> NoRes]
\* a file opened for writing whose json.dump did not complete
PartialFile == [st |-> "partial", content |-> NoRes]
CompleteFile(r) == [st |-> "complete", content |-> r]

\* What the oracle does with a call: it raises (transport error, timeout), or
\* it returns a text.  In a reply the key "c" abbreviates "confidence".
AssocOf(x) == <<"{", QT, "c", QT, ":", " ">> \o x \o <<"}">>

NoReply == [kind |-> "none", text |-> <<>>]
OracleRaises == [kind |-> "raise", text |-> <<>>]
OracleText(t) == [kind |-> "text", text |-> t]

Replies ==
    { OracleRaises,
      OracleText(<<"[">> \o AssocOf(<<"1">>) \o <<"]">>),          \* one association
      OracleText(<<"[">> \o AssocOf(StrOf(<<"a">>)) \o <<"]">>),   \* confidence a string
      OracleText(<<"[", "1", "]">>),                               \* a list of non-objects
      OracleText(<<"[", "1", HugeInt, "]">>),                      \* the parser raises
      OracleText(<<"a", " ", "a">>) }                              \* no array at all

\* analyze_book_portraits, lines 326-336: x is what the parser did with the
\* response text; a returned list that is not empty gets book_id written
\* into each of its elements, which raises for an element that is no dict
tag_associations(book_id, x) ==
    IF x.out = "raise" THEN Return(<<>>)
    ELSE IF x.data = <<>> THEN Return(<<>>)
    ELSE IF \E i \in 1..Len(x.data) : x.data[i].t # "obj" THEN Return(<<>>)
    ELSE Return([i \in 1..Len(x.data) |->
                    JObj(DictSet(x.data[i].v, <<"book_id">>, JStr(<<book_id>>), 1))])

\* the same call without its "except Exception": the oracle's exception
\* leaves it
analyze_book_portraits_unguarded(book_id, r) ==
    IF r.kind = "raise" THEN Raise("oracle")
    ELSE tag_associations(book_id, extract_json_from_response(r.text))

\* analyze_book_portraits from the oracle call on: every Exception raised in
\* the call, in the parser or while tagging the associations is caught and
\* gives the empty list
analyze_book_portraits(book_id, r) ==
    IF r.kind = "raise" THEN Return(<<>>)
    ELSE tag_associations(book_id, extract_json_from_response(r.text))

\* line 379, associations = self.analyze_book_portraits(...): what the call
\* gives for each book and each thing the oracle may do
Analysis == [b \in Books, r \in Replies |-> analyze_book_portraits(b, r)]

\* a.get(key): the value of key in dictionary a, JNone without it
RECURSIVE DictGet(_, _, _)
DictGet(d, k, i) ==
    IF i > Len(d) THEN JNone
    ELSE IF d[i][1] = k THEN d[i][2]
    ELSE DictGet(d, k, i + 1)

\* process_book's summary: a.get("confidence", 0) > 0.6 raises TypeError
\* for a confidence that is not a number (true and false are numbers)
SummaryRaises(assocs) ==
    \E i \in 1..Len(assocs) :
        DictGet(assocs[i].v, <<"c">>, 1).t \notin {"none", "num", "bool"}

\* a skip test that looks into the file: only a file that loads is skipped
ShouldSkipLoadable(b) == skip_existing /\ files[b].st = "complete"

\* a loop that skips no book
NeverSkip(b) == FALSE

\* if skip_existing and book_output_file.exists()
ShouldSkip(b) == skip_existing /\ files[b].st # "absent"

\* a handler that records the error and raises it again
AfterBookErrorReraise == "aborted"

\* where the loop goes after "except Exception" has recorded a book's error
AfterBookError == "loop"

Running == {"loop", "analyze", "awaiting", "compile", "open", "dump"}
\* the last book whatever the loop index
LastBook == books[NumBooks]

\* lines 443-445: the book of the current iteration
Cur == books[idx]

memory == <<skip_existing, idx, results, processed_books, skipped_books,
            reply, oracle_calls, associations, book_result>>

MemoryCleared ==
    /\ skip_existing = FALSE
    /\ idx = 1
    /\ results = [b \in Books |-> NoRes]
    /\ processed_books = <<>>
    /\ skipped_books = <<>>
    /\ reply = NoReply
    /\ oracle_calls = [b \in Books |-> 0]
    /\ associations = <<>>
    /\ book_result = NoRes

\* the combined file when it holds no complete result
NoCombined(s) == [st |-> s, books |-> {}]

\* no process, an empty output directory
RunIdle ==
    /\ pc = "idle"
    /\ MemoryCleared
    /\ files = [b \in Books |-> AbsentFile]
    /\ combined = NoCombined("absent")

\* the locals of a fresh call of process_input
ClearMemory ==
    /\ idx' = 1
    /\ results' = [b \in Books |-> NoRes]
    /\ processed_books' = <<>>
    /\ skipped_books' = <<>>
    /\ reply' = NoReply
    /\ oracle_calls' = [b \in Books |-> 0]
    /\ associations' = <<>>
    /\ book_result' = NoRes

\* main() calls process_input(page_dir, output_dir, skip_existing)
StartRun ==
    /\ pc \in {"idle", "done", "aborted", "killed"}
    /\ pc' = "loop"
    /\ skip_existing' \in BOOLEAN
    /\ ClearMemory
    /\ UNCHANGED <<files, combined>>
    /\ UNCHANGED notRun


\* lines 448-465: the output file exists, the book is skipped; the file is
\* read for the summary
SkipBook ==
    /\ pc = "loop" /\ idx <= NumBooks
    /\ ShouldSkip(Cur)
    /\ skipped_books' = Append(skipped_books, Cur)
    /\ results' = [results EXCEPT ![Cur] =
                      IF files[Cur].st = "complete"
                      THEN [files[Cur].content EXCEPT !.status = "skipped_existing"]
                      ELSE Res("error", <<>>, "skipped_error",
                               "Existing file found but could not be loaded")]
    /\ idx' = idx + 1
    /\ UNCHANGED <<pc, skip_existing, processed_books, reply, oracle_calls,
                   associations, book_result, files, combined>>
    /\ UNCHANGED notRun


\* the loop takes the next book: the values the names reply, associations
\* and book_result held for this book are read no more
NextBook ==
    /\ reply' = NoReply
    /\ associations' = <<>>
    /\ book_result' = NoRes

\* lines 470-472: process_book has returned r
BookProcessed(r) ==
    /\ book_result' = [r EXCEPT !.status = "newly_processed"]
    /\ results' = [results EXCEPT ![Cur] = [r EXCEPT !.status = "newly_processed"]]
    /\ processed_books' = Append(processed_books, Cur)
    /\ pc' = "open"

\* lines 483-489: except Exception as e
BookError(e) ==
    /\ results' = [results EXCEPT ![Cur] = Res("error", <<>>, "error", e)]
    /\ idx' = idx + 1
    /\ pc' = AfterBookError
    /\ NextBook

\* process_book, lines 348-355: no page of the book could be loaded
LoadNoPages ==
    /\ pc = "loop" /\ idx <= NumBooks
    /\ ~ShouldSkip(Cur)
    /\ BookProcessed(Res("no_pages", <<>>, "", "No pages could be loaded"))
    /\ UNCHANGED <<skip_existing, idx, skipped_books, reply, oracle_calls,
                   associations, files, combined>>
    /\ UNCHANGED notRun


\* process_book, lines 357-374: pages loaded, they reference no image
LoadNoImages ==
    /\ pc = "loop" /\ idx <= NumBooks
    /\ ~ShouldSkip(Cur)
    /\ BookProcessed(Res("no_images", <<>>, "", ""))
    /\ UNCHANGED <<skip_existing, idx, skipped_books, reply, oracle_calls,
                   associations, files, combined>>
    /\ UNCHANGED notRun


\* process_book, lines 348-379: pages loaded, images found
LoadPages ==
    /\ pc = "loop" /\ idx <= NumBooks
    /\ ~ShouldSkip(Cur)
    /\ pc' = "analyze"
    /\ UNCHANGED <<memory, files, combined>>
    /\ UNCHANGED notRun


\* analyze_book_portraits, line 308: the request goes out
CallOracle ==
    /\ pc = "analyze"
    /\ oracle_calls' = [oracle_calls EXCEPT ![Cur] = @ + 1]
    /\ pc' = "awaiting"
    /\ UNCHANGED <<skip_existing, idx, results, processed_books, skipped_books,
                   reply, associations, book_result, files, combined>>
    /\ UNCHANGED notRun


\* line 379: the call has ended with a for the oracle's reply r
AnalysisEnds(r, a) ==
    IF a.out = "raise"
    THEN /\ BookError("oracle")
         /\ UNCHANGED processed_books
    ELSE /\ reply' = r
         /\ associations' = a.data
         /\ pc' = "compile"
         /\ UNCHANGED <<idx, results, processed_books, book_result>>

\* analyze_book_portraits, lines 308-341: the call ends, by a text or by an
\* exception, and the associations are returned to process_book
OracleReplies ==
    /\ pc = "awaiting"
    /\ \E r \in Replies : AnalysisEnds(r, Analysis[Cur, r])
    /\ UNCHANGED <<skip_existing, skipped_books, oracle_calls, files, combined>>
    /\ UNCHANGED notRun


\* process_book, lines 381-414
CompileResult ==
    /\ pc = "compile"
    /\ ~SummaryRaises(associations)
    /\ BookProcessed(Res("full", associations, "", ""))
    /\ UNCHANGED <<skip_existing, idx, skipped_books, reply, oracle_calls,
                   associations, files, combined>>
    /\ UNCHANGED notRun


\* process_book, line 399: the summary raises TypeError
CompileFails ==
    /\ pc = "compile"
    /\ SummaryRaises(associations)
    /\ BookError("summary")
    /\ UNCHANGED <<skip_existing, processed_books, skipped_books,
                   oracle_calls, files, combined>>
    /\ UNCHANGED notRun


\* line 475: open(book_output_file, 'w') creates or truncates the file
OpenFile ==
    /\ pc = "open"
    /\ files' = [files EXCEPT ![Cur] = PartialFile]
    /\ pc' = "dump"
    /\ UNCHANGED <<memory, combined>>
    /\ UNCHANGED notRun


\* line 475: open raises OSError; the file is as it was
OpenFails ==
    /\ pc = "open"
    /\ BookError("open")
    /\ UNCHANGED <<skip_existing, processed_books, skipped_books,
                   oracle_calls, files, combined>>
    /\ UNCHANGED notRun


\* lines 476-481: json.dump writes the whole result, the file is closed
DumpFile ==
    /\ pc = "dump"
    /\ files' = [files EXCEPT ![Cur] = CompleteFile(book_result)]
    /\ idx' = idx + 1
    /\ pc' = "loop"
    /\ NextBook
    /\ UNCHANGED <<skip_existing, results, processed_books, skipped_books,
                   oracle_calls, combined>>
    /\ UNCHANGED notRun


\* line 476: json.dump raises part-way (OSError, UnicodeEncodeError); what
\* was written so far stays in the file
DumpFails ==
    /\ pc = "dump"
    /\ BookError("dump")
    /\ UNCHANGED <<skip_existing, processed_books, skipped_books,
                   oracle_calls, files, combined>>
    /\ UNCHANGED notRun


\* lines 491-508: the loop is over; summary and combined file
Finish ==
    /\ pc = "loop" /\ idx > NumBooks
    /\ combined' = [st |-> "complete",
                    books |-> {b \in Books : results[b].status # "none"}]
    /\ pc' = "done"
    /\ UNCHANGED <<memory, files>>
    /\ UNCHANGED notRun


\* lines 503-505: writing the combined file raises; process_input is left by
\* the exception, which main() reports
FinishFails ==
    /\ pc = "loop" /\ idx > NumBooks
    /\ combined' = NoCombined("partial")
    /\ pc' = "aborted"
    /\ UNCHANGED <<memory, files>>
    /\ UNCHANGED notRun


\* KeyboardInterrupt or a kill: not an Exception, no handler catches it; the
\* process ends and its memory is gone, the files stay as they are
Interrupt ==
    /\ pc \in Running
    /\ pc' = "killed"
    /\ skip_existing' = FALSE
    /\ ClearMemory
    /\ UNCHANGED <<files, combined>>
    /\ UNCHANGED notRun


(***************************************************************************)
(* collecting_all_csv_files_Dolphin.py: a script, run from its first line  *)
(* to its last or to the first exception.  A dataset is the sequence of    *)
(* its rows, a row a record of its columns.                                *)
(***************************************************************************)
\* most rows the base dataset and each portrait dataset has
MaxRows == 2

\* most rows the retry dataset has
MaxRetryRows == 1

\* an empty cell (NaN)
Null == "null"

\* the (name, book_id) pairs that occur, in lexicographic order
MergeKeys == << <<"X", "B1">>, <<"X", "B2">>, <<"Z", "B1">> >>

Datasets(rows, lo, hi) == UNION {[1..n -> rows] : n \in lo..hi}

MainRows ==
    {[name |-> MergeKeys[k][1], book_id |-> MergeKeys[k][2],
      markdown_chunk |-> "m", biography_json |-> v] :
        k \in DOMAIN MergeKeys, v \in {Null, "Y"}}

FailedRows ==
    {[name |-> MergeKeys[k][1], book_id |-> MergeKeys[k][2], biography_json |-> v] :
        k \in DOMAIN MergeKeys, v \in {Null, "W"}}

SingleRows ==
    {[name |-> MergeKeys[k][1], book_id |-> MergeKeys[k][2], image_filename |-> v] :
        k \in DOMAIN MergeKeys, v \in {Null, "p"}}

NextPageRows ==
    {[name |-> MergeKeys[k][1], book_id |-> MergeKeys[k][2], portrait_filename |-> v] :
        k \in DOMAIN MergeKeys, v \in {Null, "q"}}

\* line 20: the rows of df_merged the retry row f matches
mask(f) ==
    {i \in 1..Len(df_merged) :
        df_merged[i].name = f.name /\ df_merged[i].book_id = f.book_id}

\* lines 24-26: every column the two datasets share takes the retry row's
\* value, whatever that value is
UpdateRow(row, f) ==
    [col \in DOMAIN row |-> IF col \in DOMAIN f THEN f[col] ELSE row[col]]

\* lines 18-26, one turn of the loop
RetryRow ==
    /\ mpc = "retry"
    /\ failed_row <= Len(df_failed)
    /\ df_merged' = [i \in 1..Len(df_merged) |->
                        IF i \in mask(df_failed[failed_row])
                        THEN UpdateRow(df_merged[i], df_failed[failed_row])
                        ELSE df_merged[i]]
    /\ failed_row' = failed_row + 1
    /\ UNCHANGED <<mpc, df_main, df_failed, df_portrait_single,
                   df_next_page_portraits, df_merged_portraits, output_final>>
    /\ UNCHANGED notMerge

\* line 27: the loop is over
EndRetry ==
    /\ mpc = "retry"
    /\ failed_row > Len(df_failed)
    /\ mpc' = "merged"
    /\ UNCHANGED <<df_main, df_failed, df_merged, failed_row, df_portrait_single,
                   df_next_page_portraits, df_merged_portraits, output_final>>
    /\ UNCHANGED notMerge

\* lines 37-38: the three columns, portrait_filename renamed
RenameRow(r) ==
    [name |-> r.name, book_id |-> r.book_id, image_filename |-> r.portrait_filename]

NotNull(r) == r.image_filename # Null

\* lines 32-41: the portrait datasets are read; of the next-page one the rows
\* with a file name are kept
LoadPortraits ==
    /\ mpc = "merged"
    /\ df_portrait_single' \in Datasets(SingleRows, 0, MaxRows)
    /\ \E raw \in Datasets(NextPageRows, 0, MaxRows) :
          df_next_page_portraits' =
              SelectSeq([i \in 1..Len(raw) |-> RenameRow(raw[i])], NotNull)
    /\ mpc' = "portraits"
    /\ UNCHANGED <<df_main, df_failed, df_merged, failed_row,
                   df_merged_portraits, output_final>>
    /\ UNCHANGED notMerge

\* the rows of dataset d with key k, in their order
WithKey(d, k) ==
    LET Has(r) == r.name = k[1] /\ r.book_id = k[2] IN SelectSeq(d, Has)

MergedRow(k, l, r) ==
    [name |-> k[1], book_id |-> k[2],
     image_filename |-> l, image_filename_next_page |-> r]

\* pd.merge(how='outer') for one key: every left row with every right row;
\* rows of one side alone get an empty cell for the other
MergeKey(k, l, r) ==
    IF r = <<>> THEN [i \in 1..Len(l) |-> MergedRow(k, l[i].image_filename, Null)]
    ELSE IF l = <<>> THEN [j \in 1..Len(r) |-> MergedRow(k, Null, r[j].image_filename)]
    ELSE [n \in 1..(Len(l) * Len(r)) |->
             MergedRow(k, l[((n - 1) \div Len(r)) + 1].image_filename,
                          r[((n - 1) % Len(r)) + 1].image_filename)]

\* line 45: pd.merge(on=['name', 'book_id'], how='outer'), keys in
\* lexicographic order
RECURSIVE OuterMerge(_, _, _)
OuterMerge(left, right, k) ==
    IF k > Len(MergeKeys) THEN <<>>
    ELSE MergeKey(MergeKeys[k], WithKey(left, MergeKeys[k]), WithKey(right, MergeKeys[k]))
             \o OuterMerge(left, right, k + 1)

MergePortraits ==
    /\ mpc = "portraits"
    /\ df_merged_portraits' = OuterMerge(df_portrait_single, df_next_page_portraits, 1)
    /\ mpc' = "portraits_merged"
    /\ UNCHANGED <<df_main, df_failed, df_merged, failed_row, df_portrait_single,
                   df_next_page_portraits, output_final>>
    /\ UNCHANGED notMerge

\* the single-page file name where there is one
keep_first(a, b) == IF b # Null THEN b ELSE a

\* line 48: Series.combine_first, the next-page file name where there is one
combine_first(a, b) == IF a # Null THEN a ELSE b

CombineFirst ==
    /\ mpc = "portraits_merged"
    /\ df_merged_portraits' =
           [i \in 1..Len(df_merged_portraits) |->
               [df_merged_portraits[i] EXCEPT !.image_filename =
                   combine_first(df_merged_portraits[i].image_filename_next_page, @)]]
    /\ mpc' = "combined"
    /\ UNCHANGED <<df_main, df_failed, df_merged, failed_row, df_portrait_single,
                   df_next_page_portraits, output_final>>
    /\ UNCHANGED notMerge

\* line 50: drop(..., inplace=True) drops the column and returns None, and
\* None.reset_index raises AttributeError: the script ends here, lines 53-61
\* are not run and the final dataset is not written
DropColumn ==
    /\ mpc = "combined"
    /\ df_merged_portraits' =
           [i \in 1..Len(df_merged_portraits) |->
               [name |-> df_merged_portraits[i].name,
                book_id |-> df_merged_portraits[i].book_id,
                image_filename |-> df_merged_portraits[i].image_filename]]
    /\ mpc' = "raised"
    /\ UNCHANGED <<df_main, df_failed, df_merged, failed_row, df_portrait_single,
                   df_next_page_portraits, output_final>>
    /\ UNCHANGED notMerge

\* the final dataset on disk before line 61 has run
NotWritten == [st |-> "absent", rows |-> <<>>]

\* the script is not running
MergeIdle ==
    /\ mpc = "idle"
    /\ df_main = <<>> /\ df_failed = <<>> /\ df_merged = <<>>
    /\ failed_row = 1
    /\ df_portrait_single = <<>> /\ df_next_page_portraits = <<>>
    /\ df_merged_portraits = <<>>
    /\ output_final = NotWritten

(***************************************************************************)
(* The Book Grouper: BookPortraitAssociator.find_markdown_files with       *)
(* get_book_id and get_page_number.  A file name is the sequence of its   *)
(* characters, a directory listing the sequence of names glob yields.     *)
(***************************************************************************)
\* length up to which every name over NameChars is a file's stem
MaxNameLen == 1

\* most files the directory holds
MaxFiles == 3

Md == <<".", "m", "d">>

PageDigits == {"0", "1", "2", "7", "8"}

DigitValue(c) ==
    CASE c = "0" -> 0 [] c = "1" -> 1 [] c = "2" -> 2 [] c = "7" -> 7 [] c = "8" -> 8

RECURSIVE RemoveAll(_, _, _)
\* str.replace(p, ''): every occurrence of p, left to right, is taken out
RemoveAll(t, p, i) ==
    IF i > Len(t) THEN <<>>
    ELSE IF HasPrefixAt(t, p, i) THEN RemoveAll(t, p, i + Len(p))
    ELSE <<t[i]>> \o RemoveAll(t, p, i + 1)

RECURSIVE Split(_, _, _)
\* str.split(c): the parts of t[i..] between the occurrences of c
Split(t, c, i) ==
    IF FindChar(t, c, i) = 0 THEN <<SubSeq(t, i, Len(t))>>
    ELSE <<SubSeq(t, i, FindChar(t, c, i) - 1)>> \o Split(t, c, FindChar(t, c, i) + 1)

RECURSIVE Join(_, _)
\* c.join(parts)
Join(parts, c) ==
    IF parts = <<>> THEN <<>>
    ELSE IF Len(parts) = 1 THEN parts[1]
    ELSE parts[1] \o <<c>> \o Join(Tail(parts), c)

RECURSIVE TrailingDigits(_, _)
\* \d+$ : the index at which the run of digits that ends t[1..i] begins
TrailingDigits(t, i) ==
    IF i >= 1 /\ t[i] \in PageDigits THEN TrailingDigits(t, i - 1) ELSE i + 1

RECURSIVE IntOf(_)
\* int(digits), base 10
IntOf(ds) ==
    IF ds = <<>> THEN 0
    ELSE 10 * IntOf(SubSeq(ds, 1, Len(ds) - 1)) + DigitValue(ds[Len(ds)])

\* re.search(r'_(\d+)$', name): the digits matched, <<>> without a match
PageSuffix(name) ==
    IF /\ TrailingDigits(name, Len(name)) <= Len(name)
       /\ TrailingDigits(name, Len(name)) > 1
       /\ name[TrailingDigits(name, Len(name)) - 1] = "_"
    THEN SubSeq(name, TrailingDigits(name, Len(name)), Len(name))
    ELSE <<>>

get_page_number(md_filename) == IntOf(PageSuffix(RemoveAll(md_filename, Md, 1)))

\* '_'.join(parts[:-1]) for a name of four parts or more, else the name
BookIdOf(name_without_ext, parts) ==
    IF Len(parts) >= 4 THEN Join(SubSeq(parts, 1, Len(parts) - 1), "_")
    ELSE name_without_ext

get_book_id(md_filename) ==
    BookIdOf(RemoveAll(md_filename, Md, 1), Split(RemoveAll(md_filename, Md, 1), "_", 1))

\* books[book_id].append(md_file) on a defaultdict(list); the dictionary
\* keeps its keys in the order they were first used
AppendToBook(bs, id, f) ==
    IF \E k \in DOMAIN bs : bs[k].book_id = id
    THEN [k \in DOMAIN bs |->
             IF bs[k].book_id = id THEN [bs[k] EXCEPT !.files = Append(@, f)] ELSE bs[k]]
    ELSE Append(bs, [book_id |-> id, files |-> <<f>>])

RECURSIVE GroupFiles(_, _)
\* lines 59-63: the loop over page_dir.glob("*.md")
GroupFiles(ls, n) ==
    IF n = 0 THEN <<>>
    ELSE AppendToBook(GroupFiles(ls, n - 1), get_book_id(ls[n]), ls[n])

RECURSIVE InsertByPage(_, _)
\* f put behind every file whose page number is not greater
InsertByPage(s, f) ==
    IF s = <<>> THEN <<f>>
    ELSE IF get_page_number(Head(s)) <= get_page_number(f)
         THEN <<Head(s)>> \o InsertByPage(Tail(s), f)
    ELSE <<f>> \o s

\* a "sort" that leaves the files in the order of the listing
KeepListingOrder(fs) == fs

RECURSIVE SortByPage(_)
\* line 67: list.sort(key=get_page_number), a stable sort
SortByPage(fs) ==
    IF fs = <<>> THEN <<>>
    ELSE InsertByPage(SortByPage(SubSeq(fs, 1, Len(fs) - 1)), fs[Len(fs)])

\* lines 66-67, applied to the books grouped
SortBooks(bs) == [k \in DOMAIN bs |-> [bs[k] EXCEPT !.files = SortByPage(@)]]

find_markdown_files(ls) == SortBooks(GroupFiles(ls, Len(ls)))

NameChars == {"d", "_", "1"}

ShortNames == UNION {[1..n -> NameChars] : n \in 1..MaxNameLen}

LongNames ==
    { <<"d", "_", "2", "_", "0", "7">>,                   \* d_2_07
      <<"d", "_", "2", "_", "0", "8">>,                   \* d_2_08
      <<"d", "_", "a", "_", "2", "_", "0", "7">>,         \* d_a_2_07
      <<"d", "_", "a", "_", "2", "_", "7">>,              \* d_a_2_7
      <<"d", "_", "a", "_", "2", "_", "1", "0">>,         \* d_a_2_10
      <<"d", "_", "a", "_", "2", "_", "x">>,              \* d_a_2_x
      <<"d", "_", "a", "_", "2", "_", "7">> \o Md,        \* d_a_2_7.md
      <<"_", "1">>,                                       \* _1
      <<"n">> }                                           \* n

\* the names glob("*.md") can yield
FileNames == {s \o Md : s \in ShortNames \cup LongNames}

Injective(f) == \A i, j \in DOMAIN f : f[i] = f[j] => i = j

\* a directory holds no name twice; glob yields the names in any order
Listings == {ls \in UNION {[1..n -> FileNames] : n \in 0..MaxFiles} : Injective(ls)}

NotGrouped == [called |-> FALSE, books |-> <<>>]

GroupIdle ==
    /\ listing = <<>>
    /\ grouped = NotGrouped

(***************************************************************************)
(* The Segmenter: chunk_markdown_by_names (the same code in               *)
(* extract_all_names_Dolphin.py and extract_portrait_names_Dolphin.py),    *)
(* with re.search computed character by character.  Positions are counted *)
(* from 0 as in the code.                                                  *)
(***************************************************************************)
\* length up to which every text over TextChars is a markdown content
MaxTextLen == 3

\* most names the list holds
MaxNames == 3

\* re.IGNORECASE: the lower-case form of a character
Fold(c) == CASE c = "A" -> "a" [] c = "C" -> "c" [] OTHER -> c

\* [^\w\s]: the characters that are neither word characters nor whitespace
Punctuation == {",", "."}

\* the escaped pattern p matches t at index i (from 1), case ignored
MatchAt(t, p, i) ==
    /\ i + Len(p) - 1 <= Len(t)
    /\ \A k \in 1..Len(p) : Fold(t[i + k - 1]) = Fold(p[k])

RECURSIVE Search(_, _, _)
\* re.search(re.escape(p), t, re.IGNORECASE) from index i on: the index
\* (from 1) of the first match, 0 without a match
Search(t, p, i) ==
    IF i > Len(t) + 1 THEN 0
    ELSE IF MatchAt(t, p, i) THEN i
    ELSE Search(t, p, i + 1)

\* re.sub(r'[^\w\s]', '', name)
Simplified(name) == LET Kept(c) == c \notin Punctuation IN SelectSeq(name, Kept)

\* lines 49-55 and 62-69: the exact search, then the search for the name
\* without punctuation; the index (from 1) of the match, 0 without one
FindName(t, name) ==
    IF Search(t, name, 1) # 0 THEN Search(t, name, 1)
    ELSE Search(t, Simplified(name), 1)

\* t[a:b]
Slice(t, a, b) == SubSeq(t, a + 1, IF b > Len(t) THEN Len(t) ELSE b)

\* lines 60-75: end_pos for a name found at start_pos, end_match being the
\* index (from 1) of the next name in the text after start_pos + len(name)
EndPos(t, start_pos, name, has_next, end_match) ==
    IF has_next /\ end_match # 0 THEN start_pos + Len(name) + end_match - 1
    ELSE Len(t)

\* lines 57-79 for the name at index i, found at index start_match (from 1)
ChunkFrom(t, names, i, start_match) ==
    Strip(Slice(t, start_match - 1,
                EndPos(t, start_match - 1, names[i], i + 1 <= Len(names),
                       IF i + 1 <= Len(names)
                       THEN FindName(Slice(t, start_match - 1 + Len(names[i]), Len(t)),
                                     names[i + 1])
                       ELSE 0)))

\* one turn of the loop of line 46: the chunk of the name at index i
ChunkOf(t, names, i, start_match) ==
    IF start_match # 0 THEN ChunkFrom(t, names, i, start_match) ELSE <<>>

chunk_markdown_by_names(t, names) ==
    [i \in 1..Len(names) |->
        ChunkOf(t, names, i, FindName(t, names[i]))]

TextChars == {"A", "a", "C", ",", " "}

ShortTexts == UNION {[1..n -> TextChars] : n \in 0..MaxTextLen}

LongTexts ==
    { <<"A", ",", "C", " ", "x", " ", "C", " ", "y">>,       \* A,C x C y
      <<"a", " ", "x", " ", " ", "C", " ", "A", ",">>,       \* a x  C A,
      <<"x", " ", "A", "C", " ", "y", " ", "c", ".">> }     \* x AC y c.

\* the names: plain, with punctuation at the end, with punctuation inside,
\* and one of punctuation only
NamePool == { <<"A">>, <<"C">>, <<"A", ",">>, <<"A", ",", "C">>, <<".">> }

NameLists == UNION {[1..n -> NamePool] : n \in 0..MaxNames}

NotChunked == [called |-> FALSE, list |-> <<>>]

ChunkIdle ==
    /\ markdown_content = <<>>
    /\ names_list = <<>>
    /\ chunks = NotChunked

(***************************************************************************)
(* extract_names_to_dataframe, in its two versions: the rows collected    *)
(* from the JSON files, made a DataFrame, consecutive duplicate names     *)
(* removed.  A name is kept whole here, only its equality matters.        *)
(***************************************************************************)
\* most entries the JSON files hold
MaxEntries == 3

EntryRows ==
    [name : {"A", "B"}, book_id : {<<"b", "1">>, <<"b", "2">>}, page_number : {1, 2}]

Entries == UNION {[1..n -> EntryRows] : n \in 0..MaxEntries}

\* ord(c) of the characters book ids are written with
CodePoint(c) ==
    CASE c = "-" -> 45 [] c = "0" -> 48 [] c = "1" -> 49 [] c = "2" -> 50 [] c = "3" -> 51
      [] c = "4" -> 52 [] c = "5" -> 53 [] c = "6" -> 54 [] c = "7" -> 55 [] c = "8" -> 56
      [] c = "9" -> 57 [] c = "_" -> 95 [] c = "b" -> 98 [] c = "d" -> 100
      [] c = "g" -> 103 [] c = "i" -> 105 [] c = "k" -> 107 [] c = "o" -> 111
      [] c = "." -> 46 [] c = "e" -> 101 [] c = "f" -> 102 [] c = "n" -> 110
      [] c = "p" -> 112 [] c = "r" -> 114 [] c = "u" -> 117 [] c = "z" -> 122

RECURSIVE TextBefore(_, _)
\* s < t for two strings
TextBefore(s, t) ==
    IF t = <<>> THEN FALSE
    ELSE IF s = <<>> THEN TRUE
    ELSE IF Head(s) # Head(t) THEN CodePoint(Head(s)) < CodePoint(Head(t))
    ELSE TextBefore(Tail(s), Tail(t))

\* row a stands before row b in sort_values(['book_id', 'page_number'])
SortsBefore(a, b) ==
    \/ TextBefore(a.book_id, b.book_id)
    \/ a.book_id = b.book_id /\ a.page_number < b.page_number

RECURSIVE InsertRow(_, _)
\* r put behind every row that does not sort after it
InsertRow(s, r) ==
    IF s = <<>> THEN <<r>>
    ELSE IF SortsBefore(r, Head(s)) THEN <<r>> \o s
    ELSE <<Head(s)>> \o InsertRow(Tail(s), r)

RECURSIVE sort_values(_)
\* df.sort_values(['book_id', 'page_number']).reset_index(drop=True): rows
\* with equal keys keep their order
sort_values(rows) ==
    IF rows = <<>> THEN <<>>
    ELSE InsertRow(sort_values(SubSeq(rows, 1, Len(rows) - 1)), rows[Len(rows)])

\* the rows whose name occurs in no earlier row
DropDuplicates(rows) ==
    LET First(i) == \A j \in 1..(i - 1) : rows[j].name # rows[i].name
        Keep == {i \in DOMAIN rows : First(i)}
        RECURSIVE Pick(_)
        Pick(i) == IF i > Len(rows) THEN <<>>
                   ELSE (IF i \in Keep THEN <<rows[i]>> ELSE <<>>) \o Pick(i + 1)
    IN  Pick(1)

RECURSIVE ShiftFilter(_, _)
\* df[df['name'] != df['name'].shift()]: the rows, from index i on, whose
\* name differs from the name of the row before; the first row is compared
\* with NaN and kept
ShiftFilter(rows, i) ==
    IF i > Len(rows) THEN <<>>
    ELSE (IF i = 1 \/ rows[i].name # rows[i - 1].name THEN <<rows[i]>> ELSE <<>>)
             \o ShiftFilter(rows, i + 1)

\* the filter of the rows
DropConsecutive(rows) == ShiftFilter(rows, 1)

NoFrame == [st |-> "none", ordered |-> <<>>, rows |-> <<>>]

\* pd.DataFrame([]) has no column: df['name'] and sort_values raise KeyError
Frame(ordered) ==
    IF ordered = <<>> THEN [st |-> "raised", ordered |-> <<>>, rows |-> <<>>]
    ELSE [st |-> "ok", ordered |-> ordered, rows |-> DropConsecutive(ordered)]

NamesIdle ==
    /\ entries = <<>>
    /\ df = NoFrame

\* extract_all_names_Dolphin.py, lines 28-34
ExtractAllNames ==
    /\ df = NoFrame
    /\ df' = Frame(sort_values(entries))
    /\ UNCHANGED <<entries, notNames>>

\* extract_portrait_names_Dolphin.py, lines 25-30
ExtractPortraitNames ==
    /\ df = NoFrame
    /\ df' = Frame(entries)
    /\ UNCHANGED <<entries, notNames>>

(***************************************************************************)
(* The CSV of names and chunks, and BiographyExtractor.process_csv over   *)
(* it.  A cell of the DataFrame read back is a text or NaN; the field of  *)
(* the file is the text as written, quoting being transparent.  No field  *)
(* over the characters used here reads as a number.                       *)
(***************************************************************************)
\* len(markdown_chunk.strip()) < 50
MinChunkLen == 50

\* the default na_values of pd.read_csv
NaValues ==
    { <<>>,
      <<"#", "N", "/", "A">>,
      <<"#", "N", "/", "A", " ", "N", "/", "A">>,
      <<"#", "N", "A">>,
      <<"-", "1", ".", "#", "I", "N", "D">>,
      <<"-", "1", ".", "#", "Q", "N", "A", "N">>,
      <<"-", "N", "a", "N">>,
      <<"-", "n", "a", "n">>,
      <<"1", ".", "#", "I", "N", "D">>,
      <<"1", ".", "#", "Q", "N", "A", "N">>,
      <<"<", "N", "A", ">">>,
      <<"N", "/", "A">>,
      <<"N", "A">>,
      <<"N", "U", "L", "L">>,
      <<"N", "a", "N">>,
      <<"N", "o", "n", "e">>,
      <<"n", "/", "a">>,
      <<"n", "a", "n">>,
      <<"n", "u", "l", "l">> }

NaN == [nan |-> TRUE, s |-> <<>>]

TextCell(s) == [nan |-> FALSE, s |-> s]

\* df.to_csv(..., index=False): the fields of one row
to_csv(name, chunk) == [name |-> name, markdown_chunk |-> chunk]

\* one field as pd.read_csv reads it
ReadField(field) == IF field \in NaValues THEN NaN ELSE TextCell(field)

\* pd.read_csv(csv_file_path)
read_csv(file) ==
    [i \in 1..Len(file) |->
        [name |-> ReadField(file[i].name),
         markdown_chunk |-> ReadField(file[i].markdown_chunk)]]

\* str(row['markdown_chunk'])
Str(cell) == IF cell.nan THEN <<"n", "a", "n">> ELSE cell.s

\* the test of line 320 reduced to its first half
EmptyOnly(markdown_chunk) == Len(markdown_chunk) = 0

\* not markdown_chunk or len(markdown_chunk.strip()) < 50
TooShort(markdown_chunk) ==
    Len(markdown_chunk) = 0 \/ Len(Strip(markdown_chunk)) < MinChunkLen

\* _get_empty_biography(name): every field but the name is empty
get_empty_biography(name) == [name |-> name, content |-> "empty"]

\* biography_data, what the oracle's reply parsed to; the name in it is
\* the oracle's, held here as the name of the row
BiographyData(name) == [name |-> name, content |-> "biography_data"]

\* extract_biography(name, markdown_chunk) after the oracle was called:
\* the parsed reply, or the empty biography when the call raised or the
\* reply did not parse
ExtractOutcomes(name) == {BiographyData(name), get_empty_biography(name)}

Rep(c, n) == [k \in 1..n |-> c]

\* texts with chunks on both sides of MinChunkLen characters
BioTexts ==
    { <<>>,
      <<"A", ",">> \o Rep("x", MinChunkLen - 2) \o <<"C">> \o Rep("y", MinChunkLen - 2),
      <<"A">> \o Rep("x", MinChunkLen - 1) \o <<" ", "C">> \o Rep("y", MinChunkLen - 1)
          \o <<" ">>,
      <<"a", " ", "C">> }

BioIdle ==
    /\ bpc = "off"
    /\ csv_file = <<>>
    /\ bio_df = <<>>
    /\ index = 0
    /\ biographies = <<>>
    /\ failed_extractions = 0
    /\ oracle_rows = {}

\* df['markdown_chunk'] = chunks; df.to_csv(output_csv_with_chunks, index=False)
SaveCsv ==
    /\ bpc = "chunks"
    /\ chunks.called
    /\ csv_file' = [i \in 1..Len(names_list) |-> to_csv(names_list[i], chunks.list[i])]
    /\ bpc' = "saved"
    /\ UNCHANGED <<bio_df, index, biographies, failed_extractions, oracle_rows, notBio,
                   chunkVars>>

\* process_csv, lines 291-311: the file read, the columns checked
LoadCsv ==
    /\ bpc = "saved"
    /\ bio_df' = read_csv(csv_file)
    /\ bpc' = "rows"
    /\ UNCHANGED <<csv_file, index, biographies, failed_extractions, oracle_rows, notBio,
                   chunkVars>>

\* process_csv, lines 315-353: one turn of the loop over the rows
ProcessRow ==
    /\ bpc = "rows"
    /\ index < Len(bio_df)
    /\ index' = index + 1
    /\ IF TooShort(Str(bio_df[index + 1].markdown_chunk))
       THEN /\ biographies' =
                   Append(biographies, get_empty_biography(bio_df[index + 1].name))
            /\ failed_extractions' = failed_extractions + 1
            /\ UNCHANGED oracle_rows
       ELSE /\ \E biography \in ExtractOutcomes(bio_df[index + 1].name) :
                   biographies' = Append(biographies, biography)
            /\ oracle_rows' = oracle_rows \cup {index + 1}
            /\ UNCHANGED failed_extractions
    /\ UNCHANGED <<bpc, csv_file, bio_df, notBio, chunkVars>>

\* process_csv, lines 355-389: the results saved, the summary printed; the
\* success rate divides by len(df)
FinishCsv ==
    /\ bpc = "rows"
    /\ index = Len(bio_df)
    /\ bpc' = IF Len(bio_df) = 0 THEN "raised" ELSE "done"
    /\ UNCHANGED <<csv_file, bio_df, index, biographies, failed_extractions, oracle_rows,
                   notBio, chunkVars>>

(***************************************************************************)
(* The page-start association of extract_all_names_Dolphin.py: the names  *)
(* of all_books_names.json made a DataFrame, the digibok*.md files that   *)
(* start with a figure found, and each such figure given to the last      *)
(* name of the page before.  A book id of the JSON file names one page.   *)
(***************************************************************************)
\* most names the JSON file holds for one page
MaxPageNames == 2

\* first_line is cut after 100 characters
FirstLineLen == 100

FigureLead == <<"!", "[", "F", "i", "g", "u", "r", "e", "]">>

FigureParen == <<"!", "[", "F", "i", "g", "u", "r", "e", "(">>

FigurePattern == <<"!", "[", "F", "i", "g", "u", "r", "e", "]", "(", "f", "i", "g", "u", "r", "e", "s", "/">>

Digibok == <<"d", "i", "g", "i", "b", "o", "k", "_">>

DecimalDigits == <<"0", "1", "2", "3", "4", "5", "6", "7", "8", "9">>

RECURSIVE Decimal(_)
\* str(n) for n >= 0
Decimal(n) ==
    IF n < 10 THEN <<DecimalDigits[n + 1]>>
    ELSE Decimal(n \div 10) \o <<DecimalDigits[(n % 10) + 1]>>

\* digits filled with zeros on the left up to width w
ZeroFill(ds, w) == IF Len(ds) >= w THEN ds ELSE Rep("0", w - Len(ds)) \o ds

\* f"{n:04d}": the sign counts in the width
Format04d(n) ==
    IF n < 0 THEN <<"-">> \o ZeroFill(Decimal(0 - n), 3) ELSE ZeroFill(Decimal(n), 4)

RECURSIVE DigitRun(_, _)
\* \d+ from index i: the index behind the run of digits
DigitRun(t, i) ==
    IF i <= Len(t) /\ t[i] \in PageDigits THEN DigitRun(t, i + 1) ELSE i

NoMatch == [found |-> FALSE, g1 |-> <<>>, g2 |-> <<>>]

\* re.search(r'!\[Figure\]\(figures/([^)]+)\)', t) tried at index i: group 1
\* runs up to the first ")" and is not empty
FigureAt(t, i) ==
    IF /\ HasPrefixAt(t, FigurePattern, i)
       /\ FindChar(t, ")", i + Len(FigurePattern)) > i + Len(FigurePattern)
    THEN [found |-> TRUE,
          g1 |-> SubSeq(t, i + Len(FigurePattern),
                        FindChar(t, ")", i + Len(FigurePattern)) - 1),
          g2 |-> <<>>]
    ELSE NoMatch

RECURSIVE FigureSearch(_, _)
FigureSearch(t, i) ==
    IF i > Len(t) THEN NoMatch
    ELSE IF FigureAt(t, i).found THEN FigureAt(t, i)
    ELSE FigureSearch(t, i + 1)

\* re.search(r'(digibok_\d+_)(\d+)\.md', t) tried at index i; a run of
\* digits is followed by no digit, so only the whole run can match
FileNameAt(t, i) ==
    LET a == i + Len(Digibok)
        b == DigitRun(t, a)
        c == DigitRun(t, b + 1)
    IN  IF /\ HasPrefixAt(t, Digibok, i)
           /\ b > a
           /\ b <= Len(t) /\ t[b] = "_"
           /\ c > b + 1
           /\ HasPrefixAt(t, Md, c)
        THEN [found |-> TRUE, g1 |-> SubSeq(t, i, b), g2 |-> SubSeq(t, b + 1, c - 1)]
        ELSE NoMatch

RECURSIVE FileNameSearch(_, _)
FileNameSearch(t, i) ==
    IF i > Len(t) THEN NoMatch
    ELSE IF FileNameAt(t, i).found THEN FileNameAt(t, i)
    ELSE FileNameSearch(t, i + 1)

\* the index of the first line feed of t, 0 when there is none
FirstLineFeed(t) ==
    IF \E k \in 1..Len(t) : t[k] = LF
    THEN CHOOSE k \in 1..Len(t) : t[k] = LF /\ \A j \in 1..(k - 1) : t[j] # LF
    ELSE 0

\* content.split('\n')[0], cut after 100 characters with '...' behind
first_line(content) ==
    LET line == IF FirstLineFeed(content) = 0 THEN content
                ELSE SubSeq(content, 1, FirstLineFeed(content) - 1)
    IN  IF Len(line) > FirstLineLen
        THEN SubSeq(line, 1, FirstLineLen) \o <<".", ".", ".">>
        ELSE line

\* content.startswith('![Figure]') or content.startswith('![Figure(')
StartsWithFigure(content) ==
    HasPrefixAt(content, FigureLead, 1) \/ HasPrefixAt(content, FigureParen, 1)

RECURSIVE find_files_starting_with_figures(_)
find_files_starting_with_figures(digibok_files) ==
    IF digibok_files = <<>> THEN <<>>
    ELSE (IF StartsWithFigure(Strip(Head(digibok_files).content))
          THEN <<[file_name |-> Head(digibok_files).file_name,
                  first_line |-> first_line(Strip(Head(digibok_files).content))]>>
          ELSE <<>>)
         \o find_files_starting_with_figures(Tail(digibok_files))

RECURSIVE DataRows(_)
\* lines 17-26: one row for every entry of every book, in the file's order
DataRows(book_list) ==
    IF book_list = <<>> THEN <<>>
    ELSE [i \in 1..Len(Head(book_list).names) |->
             [name |-> Head(book_list).names[i],
              book_id |-> Head(book_list).book_id,
              page_number |-> Head(book_list).page_number]]
         \o DataRows(Tail(book_list))

\* df['portrait_filename'] = ''
WithPortraitColumn(rows) ==
    [i \in 1..Len(rows) |->
        [name |-> rows[i].name, book_id |-> rows[i].book_id,
         page_number |-> rows[i].page_number, portrait_filename |-> <<>>]]

\* previous_book_id of a file name the pattern matched
PreviousBookId(m) == m.g1 \o Format04d(IntOf(m.g2) - 1)

\* previous_page_names.index[-1]: the last row of the book id, 0 without one
LastRowOf(rows, book_id) ==
    LET hits == {i \in 1..Len(rows) : rows[i].book_id = book_id}
    IN  IF hits = {} THEN 0 ELSE CHOOSE i \in hits : \A j \in hits : j <= i

\* one turn of the loop of line 192
AssociateOne(rows, file_info) ==
    LET figure_match == FigureSearch(file_info.first_line, 1)
        current_match == FileNameSearch(file_info.file_name, 1)
    IN  IF ~figure_match.found \/ ~current_match.found THEN rows
        ELSE IF LastRowOf(rows, PreviousBookId(current_match)) = 0 THEN rows
        ELSE [rows EXCEPT ![LastRowOf(rows, PreviousBookId(current_match))]
                              .portrait_filename = figure_match.g1]

RECURSIVE AssociateAll(_, _)
AssociateAll(rows, infos) ==
    IF infos = <<>> THEN rows
    ELSE AssociateAll(AssociateOne(rows, Head(infos)), Tail(infos))

associate_portraits_with_names(rows, infos) ==
    AssociateAll(WithPortraitColumn(rows), infos)

\* the pages of the book: digibok_1_0000.md, digibok_1_0001.md, ...
PageNumbers == <<<<"0", "0", "0", "0">>, <<"0", "0", "0", "1">>, <<"0", "0", "0", "2">>>>

BookPrefix == Digibok \o <<"1", "_">>

PageId(p) == BookPrefix \o PageNumbers[p]

PersonNames == {"HANSEN, Ole", "OLSEN, Anna", "Berg, Per"}

\* the names the JSON file holds
DetectedNames == {"HANSEN, Ole", "OLSEN, Anna"}

PersonText ==
    [n \in PersonNames |->
        CASE n = "HANSEN, Ole" -> <<"H", "A", "N", "S", "E", "N", ",", " ", "O", "l", "e">>
          [] n = "OLSEN, Anna" -> <<"O", "L", "S", "E", "N", ",", " ", "A", "n", "n", "a">>
          [] n = "Berg, Per" -> <<"B", "e", "r", "g", ",", " ", "P", "e", "r">>]

PageNames == UNION {[1..n -> DetectedNames] : n \in 0..MaxPageNames}

\* the figure of page p
FigureFile(p) == <<"f">> \o PageNumbers[p] \o <<".", "p", "n", "g">>

FigureTag(p) == FigurePattern \o FigureFile(p) \o <<")">>

Prose == <<"f", ".", " ", "1", "9", "0", "0">>

\* what a page can hold
PageContents(p) ==
    { PersonText["OLSEN, Anna"] \o <<" ">> \o Prose,
      FigureTag(p) \o <<LF>> \o Prose,
      <<LF, " ">> \o FigureTag(p) \o <<" ">> \o Rep("x", FirstLineLen),
      FigureTag(p) \o <<LF, LF>> \o PersonText["HANSEN, Ole"] \o <<" ">> \o Prose,
      FigureTag(p) \o <<LF>> \o PersonText["Berg, Per"] \o <<" ">> \o Prose }

\* content['books']: one book id for every page, with its entries
JsonBooks ==
    { [p \in 1..Len(PageNumbers) |->
          [book_id |-> PageId(p), page_number |-> IntOf(PageNumbers[p]), names |-> ns[p]]] :
      ns \in [1..Len(PageNumbers) -> PageNames] }

\* markdown_dir.glob("digibok*.md") with the content of every file
MdFiles ==
    { [p \in 1..Len(PageNumbers) |-> [file_name |-> PageId(p) \o Md, content |-> cs[p]]] :
      cs \in { c \in [1..Len(PageNumbers) ->
                        UNION {PageContents(p) : p \in 1..Len(PageNumbers)}] :
                 \A p \in 1..Len(PageNumbers) : c[p] \in PageContents(p) } }

PortraitIdle ==
    /\ ppc = "off"
    /\ json_books = <<>>
    /\ md_files = <<>>
    /\ names_df = NoFrame
    /\ files_starting_with_figures = <<>>
    /\ portraits_df = <<>>

\* df = extract_names_to_dataframe(json_file_path), line 150
ExtractNames ==
    /\ ppc = "names"
    /\ names_df' = Frame(sort_values(DataRows(json_books)))
    /\ ppc' = IF DataRows(json_books) = <<>> THEN "raised" ELSE "scan"
    /\ UNCHANGED <<json_books, md_files, files_starting_with_figures, portraits_df,
                   notPortrait>>

\* files_starting_with_figures = find_files_starting_with_figures(...), line 168
ScanFiles ==
    /\ ppc = "scan"
    /\ files_starting_with_figures' = find_files_starting_with_figures(md_files)
    /\ ppc' = "associate"
    /\ UNCHANGED <<json_books, md_files, names_df, portraits_df, notPortrait>>

\* df_new = associate_portraits_with_names(df, files_starting_with_figures)
AssociatePortraits ==
    /\ ppc = "associate"
    /\ portraits_df' =
           associate_portraits_with_names(names_df.rows, files_starting_with_figures)
    /\ ppc' = "done"
    /\ UNCHANGED <<json_books, md_files, names_df, files_starting_with_figures,
                   notPortrait>>

(***************************************************************************)
(* process_book over a book of one page: the images of the page found,    *)
(* counted, the oracle asked, the result compiled and written.  In a      *)
(* reply the keys "p", "c" and "x" abbreviate "associated_person",         *)
(* "confidence" and "is_cross_page".                                       *)
(***************************************************************************)
ImageOpen == <<"!", "[">>

ImageClose == <<"]", "(", "f", "i", "g", "u", "r", "e", "s", "/">>

Png == <<".", "p", "n", "g">>

NoImage == [found |-> FALSE, g1 |-> <<>>, end |-> 0]

\* r'!\[.*?\]\(figures/([^)]+\.png)\)' tried at index i with "]" at index j:
\* the group runs up to the first ")" and ends in ".png"
ImageGroupEnd(t, j) ==
    LET k == j + Len(ImageClose)
        q == FindChar(t, ")", k)
    IN  IF q # 0 /\ q - k >= Len(Png) + 1 /\ SubSeq(t, q - Len(Png), q - 1) = Png
        THEN q ELSE 0

\* the pattern tried at index i: ".*?" takes the shortest text without a
\* line end after which the rest matches
ImageAt(t, i) ==
    LET closes == { j \in (i + 2)..Len(t) :
                      /\ HasPrefixAt(t, ImageClose, j)
                      /\ \A k \in (i + 2)..(j - 1) : t[k] # LF
                      /\ ImageGroupEnd(t, j) # 0 }
        first == CHOOSE j \in closes : \A k \in closes : j <= k
    IN  IF HasPrefixAt(t, ImageOpen, i) /\ closes # {}
        THEN [found |-> TRUE,
              g1 |-> SubSeq(t, first + Len(ImageClose), ImageGroupEnd(t, first) - 1),
              end |-> ImageGroupEnd(t, first)]
        ELSE NoImage

RECURSIVE FindAllImages(_, _)
\* re.findall(image_pattern, content): group 1 of the matches, left to right
FindAllImages(t, i) ==
    IF i > Len(t) THEN <<>>
    ELSE IF ImageAt(t, i).found
         THEN <<ImageAt(t, i).g1>> \o FindAllImages(t, ImageAt(t, i).end + 1)
    ELSE FindAllImages(t, i + 1)

\* md_filename.replace('.md', '')
get_page_prefix(md_filename) == RemoveAll(md_filename, Md, 1)

\* figures_dir.glob(f"{page_prefix}_figure_*.png") yields this name
GlobMatches(name, page_prefix) ==
    LET pre == page_prefix \o <<"_", "f", "i", "g", "u", "r", "e", "_">>
    IN  /\ Len(name) >= Len(pre) + Len(Png)
        /\ HasPrefixAt(name, pre, 1)
        /\ HasPrefixAt(name, Png, Len(name) - Len(Png) + 1)

RECURSIVE InsertText(_, _)
InsertText(sorted, x) ==
    IF sorted = <<>> THEN <<x>>
    ELSE IF TextBefore(x, Head(sorted)) THEN <<x>> \o sorted
    ELSE <<Head(sorted)>> \o InsertText(Tail(sorted), x)

RECURSIVE SortTexts(_)
\* sorted(image_files)
SortTexts(list) ==
    IF list = <<>> THEN <<>>
    ELSE InsertText(SortTexts(SubSeq(list, 1, Len(list) - 1)), list[Len(list)])

RECURSIVE SetToSortedSeq(_)
SetToSortedSeq(set) ==
    IF set = {} THEN <<>>
    ELSE LET x == CHOOSE y \in set : \A z \in set : y = z \/ TextBefore(y, z)
         IN  <<x>> \o SetToSortedSeq(set \ {x})

\* find_image_files: the references of the content, then the files of the
\* figures directory that carry the page's prefix and are not referenced
find_image_files(page_filename, content, dir) ==
    LET image_files == IF content # <<>> THEN FindAllImages(content, 1) ELSE <<>>
        referenced == {image_files[k] : k \in 1..Len(image_files)}
        actual == IF dir.exists
                  THEN {n \in dir.names :
                           GlobMatches(n, get_page_prefix(page_filename))
                           /\ n \notin referenced}
                  ELSE {}
    IN  SortTexts(image_files \o SetToSortedSeq(actual))

\* the page file of the book
PageFile == PageId(2) \o Md

ReferencedImage == PageId(2) \o <<"_", "f", "i", "g", "u", "r", "e", "_", "1", ".", "p", "n", "g">>

UnreferencedImage == PageId(2) \o <<"_", "f", "i", "g", "u", "r", "e", "_", "2", ".", "p", "n", "g">>

StrayImage == <<"z", ".", "p", "n", "g">>

ImageTag(alt, dir, file) ==
    ImageOpen \o alt \o <<"]", "(">> \o dir \o <<"/">> \o file \o <<")">>

FigureAlt == <<"F", "i", "g", "u", "r", "e">>

FiguresName == <<"f", "i", "g", "u", "r", "e", "s">>

SmithUpper == <<"S", "M", "I", "T", "H", ",", " ", "J", "o", "h", "n">>

SmithLower == <<"S", "m", "i", "t", "h", ",", " ", "J", "o", "h", "n">>

\* what the page can hold
EnginePages ==
    { <<>>,
      SmithUpper,
      ImageTag(FigureAlt, FiguresName, ReferencedImage) \o <<LF>> \o SmithUpper,
      ImageTag(FigureAlt, FiguresName, ReferencedImage) \o <<LF, LF>> \o SmithLower,
      ImageTag(<<"x">>, FiguresName, ReferencedImage) \o <<" ">> \o SmithUpper,
      ImageTag(FigureAlt, <<"f", "i", "g">>, ReferencedImage) \o <<LF>> \o SmithUpper }

\* what the figures directory can be
FigureDirs ==
    { [exists |-> FALSE, names |-> {}] }
    \cup { [exists |-> TRUE, names |-> ns] :
             ns \in SUBSET {ReferencedImage, UnreferencedImage, StrayImage} }

PersonMember(name) == <<QT, "p", QT, ":", " ">> \o StrOf(name)

EngineReplies ==
    { OracleRaises,
      OracleText(<<"[", "{">> \o PersonMember(SmithUpper)
                     \o <<",", " ", "\"", "c", "\"", ":", " ", "1", ",", " ", "\"", "x", "\"", ":", " ", "f", "a", "l", "s", "e">> \o <<"}", "]">>),
      OracleText(<<"[", "{">> \o PersonMember(SmithLower)
                     \o <<",", " ", "\"", "c", "\"", ":", " ", "1", ",", " ", "\"", "x", "\"", ":", " ", "f", "a", "l", "s", "e">> \o <<"}", "]">>),
      OracleText(<<"[", "{">> \o PersonMember(SmithUpper)
                     \o <<",", " ", "\"", "x", "\"", ":", " ", "t", "r", "u", "e">> \o <<"}", "]">>),
      OracleText(<<"[", "{", "\"", "p", "\"", ":", " ", "n", "u", "l", "l", "}", "]">>),
      OracleText(<<"n", "o">>) }

EngineBook == "b1"

\* associations = self.analyze_book_portraits(book_id, pages), for each
\* thing the oracle may do
EngineAnalysis == [r \in EngineReplies |-> analyze_book_portraits(EngineBook, r)]

NotLoaded == [available_images |-> <<>>, total_images |-> 0, markdown_images |-> 0]

NoEngineResult == [kind |-> "none", total_images |-> 0, associations |-> <<>>]

EngineIdle ==
    /\ epc = "off"
    /\ page_text = <<>>
    /\ figures_dir = [exists |-> FALSE, names |-> {}]
    /\ loaded = NotLoaded
    /\ engine_reply = NoReply
    /\ engine_result = NoEngineResult
    /\ engine_file = NoEngineResult

\* process_book, lines 346-374: the page loaded, its images counted; a book
\* without an image is returned at once
LoadBook ==
    /\ epc = "start"
    /\ loaded' = [available_images |-> find_image_files(PageFile, page_text, figures_dir),
                  total_images |-> Len(find_image_files(PageFile, page_text, figures_dir)),
                  markdown_images |-> Len(FindAllImages(page_text, 1))]
    /\ IF Len(find_image_files(PageFile, page_text, figures_dir)) = 0
       THEN /\ engine_result' = [kind |-> "no_images", total_images |-> 0,
                                 associations |-> <<>>]
            /\ epc' = "returned"
       ELSE /\ UNCHANGED engine_result
            /\ epc' = "analyze"
    /\ UNCHANGED <<page_text, figures_dir, engine_reply, engine_file, notEngine>>

\* process_book, lines 379-414 for the associations a of the oracle's reply
\* r: the summary raises or the result is returned
BookCompiled(r, a) ==
    /\ engine_reply' = r
    /\ IF SummaryRaises(a.data)
       THEN /\ engine_result' = [kind |-> "error", total_images |-> 0,
                                 associations |-> <<>>]
            /\ epc' = "failed"
       ELSE /\ engine_result' = [kind |-> "full", total_images |-> loaded.total_images,
                                 associations |-> a.data]
            /\ epc' = "returned"

\* process_book, lines 376-414: the oracle asked, the result compiled
AnalyzeBook ==
    /\ epc = "analyze"
    /\ \E r \in EngineReplies : BookCompiled(r, EngineAnalysis[r])
    /\ UNCHANGED <<page_text, figures_dir, loaded, engine_file, notEngine>>

\* process_input, lines 471-478: the result written to the book's file
SaveBook ==
    /\ epc = "returned"
    /\ engine_file' = engine_result
    /\ epc' = "saved"
    /\ UNCHANGED <<page_text, figures_dir, loaded, engine_reply, engine_result, notEngine>>

(***************************************************************************)
(* The specifications.                                                     *)
(***************************************************************************)
ParseIdle ==
    /\ resp = [pre |-> <<>>, wrap |-> "none", body |-> <<>>, post |-> <<>>]
    /\ parsed = NotCalled

\* SpecParse: the parser applied once to a response
InitParse ==
    /\ EngineIdle
    /\ PortraitIdle
    /\ BioIdle
    /\ resp \in Responses
    /\ parsed = NotCalled
    /\ RunIdle
    /\ MergeIdle
    /\ GroupIdle
    /\ ChunkIdle
    /\ NamesIdle

\* associations = self.extract_json_from_response(response_text)
ExtractJson ==
    /\ parsed = NotCalled
    /\ parsed' = extract_json_from_response(Text(resp))
    /\ UNCHANGED <<resp, notParse>>

NextParse == ExtractJson

SpecParse == InitParse /\ [][NextParse]_vars

\* SpecRun: runs of process_input over the same output directory, one after
\* another, each to its end or to an interruption
InitRun ==
    /\ EngineIdle
    /\ RunIdle /\ ParseIdle /\ MergeIdle /\ GroupIdle /\ ChunkIdle /\ NamesIdle /\ BioIdle
    /\ PortraitIdle

NextRun ==
    \/ StartRun
    \/ SkipBook
    \/ LoadNoPages
    \/ LoadNoImages
    \/ LoadPages
    \/ CallOracle
    \/ OracleReplies
    \/ CompileResult
    \/ CompileFails
    \/ OpenFile
    \/ OpenFails
    \/ DumpFile
    \/ DumpFails
    \/ Finish
    \/ FinishFails
    \/ Interrupt

SpecRun == InitRun /\ [][NextRun]_vars

\* SpecMerge: the merge script run once; lines 11-15 have read the base and
\* the retry dataset
InitMerge ==
    /\ EngineIdle
    /\ PortraitIdle
    /\ BioIdle
    /\ ParseIdle /\ RunIdle /\ GroupIdle /\ ChunkIdle /\ NamesIdle
    /\ mpc = "retry"
    /\ df_main \in Datasets(MainRows, 1, MaxRows)
    /\ df_failed \in Datasets(FailedRows, 0, MaxRetryRows)
    /\ df_merged = df_main
    /\ failed_row = 1
    /\ df_portrait_single = <<>> /\ df_next_page_portraits = <<>>
    /\ df_merged_portraits = <<>>
    /\ output_final = NotWritten

NextMerge ==
    \/ RetryRow
    \/ EndRetry
    \/ LoadPortraits
    \/ MergePortraits
    \/ CombineFirst
    \/ DropColumn

SpecMerge == InitMerge /\ [][NextMerge]_vars

\* SpecPortraitMerge: the merge script run once over a base dataset of one
\* row and an empty retry dataset, so that the loop of lines 18-26 makes no
\* turn and the portrait datasets are the inputs that vary
InitPortraitMerge ==
    /\ EngineIdle
    /\ PortraitIdle
    /\ BioIdle
    /\ ParseIdle /\ RunIdle /\ GroupIdle /\ ChunkIdle /\ NamesIdle
    /\ mpc = "retry"
    /\ df_main \in Datasets(MainRows, 1, 1)
    /\ df_failed = <<>>
    /\ df_merged = df_main
    /\ failed_row = 1
    /\ df_portrait_single = <<>> /\ df_next_page_portraits = <<>>
    /\ df_merged_portraits = <<>>
    /\ output_final = NotWritten

NextPortraitMerge ==
    \/ EndRetry
    \/ LoadPortraits
    \/ MergePortraits
    \/ CombineFirst
    \/ DropColumn

SpecPortraitMerge == InitPortraitMerge /\ [][NextPortraitMerge]_vars

\* SpecGroup: find_markdown_files applied once to a directory
InitGroup ==
    /\ EngineIdle
    /\ PortraitIdle
    /\ BioIdle
    /\ ParseIdle /\ RunIdle /\ MergeIdle /\ ChunkIdle /\ NamesIdle
    /\ listing \in Listings
    /\ grouped = NotGrouped

\* books = self.find_markdown_files(page_dir)
FindMarkdownFiles ==
    /\ ~grouped.called
    /\ grouped' = [called |-> TRUE, books |-> find_markdown_files(listing)]
    /\ UNCHANGED <<listing, notGroup>>

NextGroup == FindMarkdownFiles

SpecGroup == InitGroup /\ [][NextGroup]_vars

\* SpecChunk: chunk_markdown_by_names applied once to a text and a name list
InitChunk ==
    /\ EngineIdle
    /\ PortraitIdle
    /\ BioIdle
    /\ ParseIdle /\ RunIdle /\ MergeIdle /\ GroupIdle /\ NamesIdle
    /\ markdown_content \in ShortTexts \cup LongTexts
    /\ names_list \in NameLists
    /\ chunks = NotChunked

\* chunks = chunk_markdown_by_names(markdown_file_path, names_list)
ChunkMarkdown ==
    /\ ~chunks.called
    /\ chunks' = [called |-> TRUE,
                  list |-> chunk_markdown_by_names(markdown_content, names_list)]
    /\ UNCHANGED <<markdown_content, names_list, notChunk>>

NextChunk == ChunkMarkdown

SpecChunk == InitChunk /\ [][NextChunk]_vars

\* SpecNames: extract_names_to_dataframe, in either version, applied once
InitNames ==
    /\ EngineIdle
    /\ PortraitIdle
    /\ BioIdle
    /\ ParseIdle /\ RunIdle /\ MergeIdle /\ GroupIdle /\ ChunkIdle
    /\ entries \in Entries
    /\ df = NoFrame

NextNames ==
    \/ ExtractAllNames
    \/ ExtractPortraitNames

SpecNames == InitNames /\ [][NextNames]_vars

\* SpecBio: the segmenter's chunks saved as CSV, then process_csv over it
InitBio ==
    /\ EngineIdle
    /\ PortraitIdle
    /\ ParseIdle /\ RunIdle /\ MergeIdle /\ GroupIdle /\ NamesIdle
    /\ markdown_content \in BioTexts
    /\ names_list \in NameLists
    /\ chunks = NotChunked
    /\ bpc = "chunks"
    /\ csv_file = <<>>
    /\ bio_df = <<>>
    /\ index = 0
    /\ biographies = <<>>
    /\ failed_extractions = 0
    /\ oracle_rows = {}

NextBio ==
    \/ ChunkMarkdown
    \/ SaveCsv
    \/ LoadCsv
    \/ ProcessRow
    \/ FinishCsv

SpecBio == InitBio /\ [][NextBio]_vars

\* SpecPortrait: the script of extract_all_names_Dolphin.py from the JSON
\* file of names to the DataFrame with portraits
InitPortrait ==
    /\ EngineIdle
    /\ ParseIdle /\ RunIdle /\ MergeIdle /\ GroupIdle /\ ChunkIdle /\ NamesIdle /\ BioIdle
    /\ ppc = "names"
    /\ json_books \in JsonBooks
    /\ md_files \in MdFiles
    /\ names_df = NoFrame
    /\ files_starting_with_figures = <<>>
    /\ portraits_df = <<>>

NextPortrait ==
    \/ ExtractNames
    \/ ScanFiles
    \/ AssociatePortraits

SpecPortrait == InitPortrait /\ [][NextPortrait]_vars

\* SpecEngine: process_book and the write of its result for one book
InitEngine ==
    /\ ParseIdle /\ RunIdle /\ MergeIdle /\ GroupIdle /\ ChunkIdle /\ NamesIdle /\ BioIdle
    /\ PortraitIdle
    /\ epc = "start"
    /\ page_text \in EnginePages
    /\ figures_dir \in FigureDirs
    /\ loaded = NotLoaded
    /\ engine_reply = NoReply
    /\ engine_result = NoEngineResult
    /\ engine_file = NoEngineResult

NextEngine ==
    \/ LoadBook
    \/ AnalyzeBook
    \/ SaveBook

SpecEngine == InitEngine /\ [][NextEngine]_vars

(***************************************************************************)
(* Properties of the parser (checked under SpecParse).                     *)
(***************************************************************************)
Called == parsed # NotCalled

HasChar(t, c) == \E i \in 1..Len(t) : t[i] = c

\* number of "[" minus number of "]" in t[f..i]
BracketDepth(t, f, i) ==
    Cardinality({k \in f..i : t[k] = "["}) - Cardinality({k \in f..i : t[k] = "]"})

\* The array opened by the first "[" of t is never closed: the text was cut
\* off inside it.  (Texts with a quote are left out, so that every bracket
\* counted is a bracket of the array structure.)
OutermostUnclosed(t) ==
    /\ HasChar(t, "[")
    /\ ~HasChar(t, QT)
    /\ \A i \in FindChar(t, "[", 1)..Len(t) : BracketDepth(t, FindChar(t, "[", 1), i) >= 1

\* C3: extract_json_from_response returns a list for every response text and
\* never raises; a text with no bracket at all gives the empty list.
C3_ReturnsListNeverRaises ==
    Called =>
        /\ parsed.out = "return"
        /\ (~HasChar(Text(resp), "[") /\ ~HasChar(Text(resp), "]"))
               => parsed.data = <<>>

\* C4: when the outermost array of the response is cut off before its closing
\* bracket, the parser returns the empty list, never an inner part of it.
C4_NoPartialArray ==
    (Called /\ OutermostUnclosed(Text(resp))) => parsed = Return(<<>>)

\* C5: when a fenced block encloses a valid JSON array, whatever text stands
\* before and after the block, the parser returns exactly that array.
C5_FencedBlockWins ==
    (/\ Called
     /\ resp.wrap # "none"
     /\ JsonLoads(resp.body).st = "ok"
     /\ JsonLoads(resp.body).val.t = "arr")
        => parsed = Return(JsonLoads(resp.body).val.v)

\* the response is nothing but an array whose only defect is a raw newline or
\* carriage return inside its text: with those escaped it loads as a list
OnlyRawNewlines(r) ==
    /\ r.wrap = "none" /\ r.pre = <<>> /\ r.post = <<>>
    /\ HasChar(r.body, LF) \/ HasChar(r.body, CR)
    /\ JsonLoads(EscapeNewlines(r.body)).st = "ok"
    /\ JsonLoads(EscapeNewlines(r.body)).val.t = "arr"

\* C6: a response whose only defect is a raw newline or carriage return in a
\* string value is repaired: the parser returns the intended array.
C6_RawNewlineRepaired ==
    (Called /\ OnlyRawNewlines(resp))
        => parsed = Return(JsonLoads(EscapeNewlines(resp.body)).val.v)


(***************************************************************************)
(* Properties of the merge script (checked under SpecMerge).               *)
(***************************************************************************)
NonKeyColumns == {"markdown_chunk", "biography_json"}

\* the retry rows with the key of base row i
Matching(i) ==
    {j \in 1..Len(df_failed) :
        df_failed[j].name = df_main[i].name /\ df_failed[j].book_id = df_main[i].book_id}

\* C1: after the retry pass, a base row matched by a retry row keeps, in every
\* non-key column, a value that was not empty in the base when the retry
\* value is empty.
C1_NullNeverOverwrites ==
    mpc # "retry" =>
        \A i \in 1..Len(df_main) : \A j \in Matching(i) :
            \A col \in NonKeyColumns \cap DOMAIN df_failed[j] :
                (df_main[i][col] # Null /\ df_failed[j][col] = Null)
                    => df_merged[i][col] = df_main[i][col]

\* C2: when the script has ended, the final dataset is written and has as
\* many rows as the base dataset.
C2_RowCountPreserved ==
    mpc \in {"finished", "raised"} =>
        /\ output_final.st = "written"
        /\ Len(output_final.rows) = Len(df_main)

(***************************************************************************)
(* Properties of the runs (checked under SpecRun).                         *)
(***************************************************************************)
Statuses == {"newly_processed", "skipped_existing", "skipped_error", "error"}

Elems(q) == {q[i] : i \in 1..Len(q)}

\* C7: a run of process_input that has ended, whichever books failed in it,
\* holds a result for every book found: each was processed, skipped or
\* recorded with its error.
C7_FailuresContained ==
    pc \in {"done", "aborted"} => \A b \in Books : results[b].status \in Statuses

\* a run has ended in which the first book failed and the second was processed
C7_Witness ==
    /\ pc = "done"
    /\ results[books[1]].status = "error"
    /\ results[books[2]].status = "newly_processed"

\* C8: whenever no write is under way, also after an exception or an
\* interruption, every per-book file is absent or holds a complete result.
C8_NoPartialFile ==
    pc # "dump" => \A b \in Books : files[b].st \in {"absent", "complete"}

\* C9: with skip_existing, at the head of the loop a book whose file exists is
\* not processed (no step into process_book, no file written, no oracle
\* call), a book whose file is absent is not skipped; and a book skipped in
\* this run keeps its file and is never sent to the oracle.
C9_Resumption ==
    [][ /\ (pc = "loop" /\ idx <= NumBooks /\ skip_existing) =>
              /\ files[Cur].st # "absent" =>
                    /\ pc' \notin {"analyze", "open"}
                    /\ files' = files
                    /\ processed_books' \in {processed_books, <<>>}
              /\ files[Cur].st = "absent" =>
                    skipped_books' \in {skipped_books, <<>>}
        /\ pc \in Running =>
              \A b \in Elems(skipped_books) :
                  /\ files'[b] = files[b]
                  /\ oracle_calls[b] = 0 /\ oracle_calls'[b] = 0 ]_vars

\* a run with skip_existing has ended that skipped one book, whose file was
\* there, and processed another, whose file was not
C9_Witness ==
    /\ pc = "done" /\ skip_existing
    /\ \E b \in Elems(skipped_books) : oracle_calls[b] = 0 /\ files[b].st # "absent"
    /\ \E b \in Elems(processed_books) : results[b].status = "newly_processed"

\* the parser gave no array for the text
NothingExtracted(x) == x.out # "return" \/ x.data = <<>>

\* the oracle call raised (a timeout is raised as an exception), or returned
\* a text from which no array can be extracted
FailedReply(r) ==
    \/ r.kind = "raise"
    \/ r.kind = "text" /\ NothingExtracted(extract_json_from_response(r.text))

\* C10: the oracle is called at most once for a book in a run; when the call
\* failed the book goes on with no association and is recorded as processed
\* with an empty list, and no book is recorded with the oracle's error.
C10_OracleFailureYieldsNothing ==
    /\ \A b \in Books : oracle_calls[b] <= 1 /\ results[b].error # "oracle"
    /\ (pc \in {"compile", "open", "dump"} /\ FailedReply(reply)) =>
          /\ associations = <<>>
          /\ pc # "compile" =>
                /\ results[Cur].status = "newly_processed"
                /\ results[Cur].associations = <<>>

\* the oracle raised for a book, called once, and the book is being written
\* as processed
C10_Witness ==
    /\ pc = "dump"
    /\ reply = OracleRaises
    /\ oracle_calls[Cur] = 1
    /\ results[Cur].status = "newly_processed"

\* C11: when a run is interrupted, the result already computed for the
\* current book is written to its file in full, and the files of the other
\* books stay as they were.
C11_InterruptionCaught ==
    [][ pc' = "killed" =>
          \A b \in Books :
              IF pc \in {"open", "dump"} /\ b = Cur
              THEN files'[b] = CompleteFile(book_result)
              ELSE files'[b] = files[b] ]_vars

(***************************************************************************)
(* Properties of the Book Grouper (checked under SpecGroup).               *)
(***************************************************************************)
\* a file's name without its extension
Stem(f) == SubSeq(f, 1, Len(f) - Len(Md))

\* the name has the form <prefix>_<digits>.md
PageForm(f) == Len(PageSuffix(Stem(f))) \in 1..(Len(Stem(f)) - 2)

\* the name with its final token _<digits> removed
Prefix(f) == SubSeq(Stem(f), 1, Len(Stem(f)) - Len(PageSuffix(Stem(f))) - 1)

\* the page number the name carries
PageNo(f) == IntOf(PageSuffix(Stem(f)))

\* file f is among the pages of the k-th book returned
InBook(f, k) == \E i \in DOMAIN grouped.books[k].files : grouped.books[k].files[i] = f

Place(f) == CHOOSE i \in DOMAIN listing : listing[i] = f

\* C12: every file named <prefix>_<digits>.md is put in the book <prefix>,
\* so that files differing only in the page number share a book.
C12_BookIdStripsPageNumber ==
    grouped.called =>
        \A i \in DOMAIN listing :
            PageForm(listing[i]) =>
                \E k \in DOMAIN grouped.books :
                    /\ InBook(listing[i], k)
                    /\ grouped.books[k].book_id = Prefix(listing[i])

\* C13: in every book returned the page files stand in ascending order of
\* their page numbers, whatever the order of the listing.
C13_PagesAscending ==
    grouped.called =>
        \A k \in DOMAIN grouped.books :
            \A i, j \in DOMAIN grouped.books[k].files :
                (/\ i < j
                 /\ PageForm(grouped.books[k].files[i])
                 /\ PageForm(grouped.books[k].files[j]))
                    => PageNo(grouped.books[k].files[i]) <= PageNo(grouped.books[k].files[j])

\* a book was returned with two pages that the listing gave in descending
\* order of page number
C13_Witness ==
    /\ grouped.called
    /\ \E k \in DOMAIN grouped.books :
          \E i, j \in DOMAIN grouped.books[k].files :
              /\ i < j
              /\ PageForm(grouped.books[k].files[i])
              /\ PageForm(grouped.books[k].files[j])
              /\ PageNo(grouped.books[k].files[i]) < PageNo(grouped.books[k].files[j])
              /\ Place(grouped.books[k].files[i]) > Place(grouped.books[k].files[j])

\* C14: a file whose name does not end in _<digits> is in no book.
C14_UnmatchedNameSkipped ==
    grouped.called =>
        \A i \in DOMAIN listing :
            ~PageForm(listing[i]) => \A k \in DOMAIN grouped.books : ~InBook(listing[i], k)

\* the orders in which a directory of n files can be listed
Orders(n) == {q \in [1..n -> 1..n] : Injective(q)}

Reordered(q) == [i \in DOMAIN listing |-> listing[q[i]]]

\* two page files of one book returned carry the same page number
DuplicatePage ==
    \E k \in DOMAIN grouped.books :
        \E i, j \in DOMAIN grouped.books[k].files :
            /\ i # j
            /\ PageForm(grouped.books[k].files[i])
            /\ PageForm(grouped.books[k].files[j])
            /\ PageNo(grouped.books[k].files[i]) = PageNo(grouped.books[k].files[j])

\* the page sequence of book id among the books bs, <<>> without that book
PagesOf(bs, id) ==
    IF \E k \in DOMAIN bs : bs[k].book_id = id
    THEN bs[CHOOSE k \in DOMAIN bs : bs[k].book_id = id].files
    ELSE <<>>

\* C15: with two pages of the same number in a book, every order of the
\* listing gives each book the same page sequence.
C15_DuplicatePagesDeterministic ==
    (grouped.called /\ DuplicatePage) =>
        \A q \in Orders(Len(listing)) :
            \A k \in DOMAIN grouped.books :
                PagesOf(find_markdown_files(Reordered(q)), grouped.books[k].book_id)
                    = grouped.books[k].files

(***************************************************************************)
(* Properties of the Segmenter (checked under SpecChunk).                  *)
(***************************************************************************)
\* the name at index i is located by the exact or the stripped search
Located(i) == FindName(markdown_content, names_list[i]) # 0

\* the length of the occurrence by which name was located in t
MatchedLen(t, name) ==
    IF Search(t, name, 1) # 0 THEN Len(name) ELSE Len(Simplified(name))

\* the first occurrence of name in t at index from or later, exact or else
\* stripped; 0 when there is none
FirstFrom(t, name, from) ==
    IF Search(t, name, from) # 0 THEN Search(t, name, from)
    ELSE Search(t, Simplified(name), from)

\* where the chunk of the located name at index i is to end: before the
\* first occurrence of the next name after the occurrence matched, at the
\* end of the text for the last name or without such an occurrence
ChunkEnd(t, names, i, start) ==
    IF i < Len(names) /\ FirstFrom(t, names[i + 1], start + MatchedLen(t, names[i])) # 0
    THEN FirstFrom(t, names[i + 1], start + MatchedLen(t, names[i])) - 1
    ELSE Len(t)

ExpectedChunk(t, names, i, start) == Strip(SubSeq(t, start, ChunkEnd(t, names, i, start)))

\* C16: there are as many chunks as names, and the chunk of a located name
\* runs from its first occurrence to the first occurrence of the next name
\* after it, the last one to the end of the text.
C16_ChunkBoundaries ==
    chunks.called =>
        /\ Len(chunks.list) = Len(names_list)
        /\ \A i \in 1..Len(names_list) :
              Located(i) =>
                  chunks.list[i] = ExpectedChunk(markdown_content, names_list, i,
                                                 FindName(markdown_content, names_list[i]))

(***************************************************************************)
(* Properties of extract_names_to_dataframe (checked under SpecNames).     *)
(***************************************************************************)
NamesOf(rows) == [i \in DOMAIN rows |-> rows[i].name]

RECURSIVE CollapseRuns(_)
\* every run of equal neighbours reduced to its first element
CollapseRuns(l) ==
    IF Len(l) <= 1 THEN l
    ELSE IF l[1] = l[2] THEN CollapseRuns(<<l[1]>> \o SubSeq(l, 3, Len(l)))
    ELSE <<l[1]>> \o CollapseRuns(Tail(l))

\* the indices of the ordered rows that begin a run of equal names
RunStarts(rows) == {i \in DOMAIN rows : i = 1 \/ rows[i].name # rows[i - 1].name}

NotLocated(i) == FindName(markdown_content, names_list[i]) = 0

C18_MissingNameEmptyChunk ==
    \A i \in 1..Len(names_list) :
        NotLocated(i) =>
            /\ chunks.called =>
                  /\ Len(chunks.list) = Len(names_list)
                  /\ chunks.list[i] = <<>>
            /\ bpc \in {"saved", "rows", "done"} =>
                  /\ Len(csv_file) = Len(names_list)
                  /\ csv_file[i] = to_csv(names_list[i], <<>>)
            /\ bpc \in {"rows", "done"} =>
                  /\ Len(bio_df) = Len(names_list)
                  /\ bio_df[i].name = ReadField(names_list[i])
            /\ index >= i =>
                  /\ biographies[i] = get_empty_biography(bio_df[i].name)
                  /\ i \notin oracle_rows
            /\ bpc = "done" => Len(biographies) = Len(names_list)
            /\ bpc # "raised"

C18_Witness ==
    /\ bpc = "done"
    /\ \E i \in 1..Len(names_list) : NotLocated(i) /\ i > 1
    /\ oracle_rows # {}

(***************************************************************************)
(* C19: page-start rule.  When the first element of a page is an image    *)
(* reference and no upper-case name follows it at once, and the page      *)
(* before it in the book has at least one detected name, the portrait is  *)
(* associated with the last name that appeared on that page.              *)
(***************************************************************************)
UpperLetters == {"A", "B", "C", "D", "E", "F", "G", "H", "I", "J", "K", "L", "M", "N", "O", "P", "Q", "R", "S", "T", "U", "V", "W", "X", "Y", "Z"}

\* the family name, up to the comma, is written in capitals
UpperFamily(n) ==
    /\ FindChar(PersonText[n], ",", 1) > 1
    /\ \A k \in 1..(FindChar(PersonText[n], ",", 1) - 1) : PersonText[n][k] \in UpperLetters

\* the image reference the page begins with
LeadingFigure(q) == FigureAt(Strip(md_files[q].content), 1)

\* index of the first character behind the image reference and the blanks
\* and line ends that follow it
BehindFigure(q) ==
    SkipWs(Strip(md_files[q].content),
           Len(FigurePattern) + Len(LeadingFigure(q).g1) + 2)

\* the names with an upper-case family name that follow the image at once
ImmediateNames(q) ==
    {n \in PersonNames :
        UpperFamily(n) /\ HasPrefixAt(Strip(md_files[q].content), PersonText[n],
                                      BehindFigure(q))}

Carries(i, q) == portraits_df[i].portrait_filename = LeadingFigure(q).g1

C19_PageStartRule ==
    ppc = "done" =>
        \A q \in 2..Len(md_files) :
            ( /\ LeadingFigure(q).found
              /\ ImmediateNames(q) = {}
              /\ json_books[q - 1].names # <<>> )
            => \E i \in 1..Len(portraits_df) :
                   /\ Carries(i, q)
                   /\ portraits_df[i].book_id = json_books[q - 1].book_id
                   /\ portraits_df[i].name =
                          json_books[q - 1].names[Len(json_books[q - 1].names)]

(***************************************************************************)
(* C20: the page-start rule yields to the immediate-name rule.  When a    *)
(* page begins with an image reference that a name with an upper-case     *)
(* family name follows at once, the portrait goes to that name on that    *)
(* page and to no name of the page before.                                *)
(***************************************************************************)
C20_ImmediateNameWins ==
    ppc = "done" =>
        \A q \in 1..Len(md_files) :
            (LeadingFigure(q).found /\ ImmediateNames(q) # {}) =>
                \A i \in 1..Len(portraits_df) :
                    Carries(i, q) =>
                        /\ portraits_df[i].book_id = json_books[q].book_id
                        /\ portraits_df[i].name \in ImmediateNames(q)

(***************************************************************************)
(* C21: immediate-name rule.  When an image reference of the page is      *)
(* followed at once, on its line or the next line that is not blank, by   *)
(* a name with an upper-case family name, the file written for the book   *)
(* holds an association with that name as person, confidence 1 and        *)
(* cross-page false; a following name whose family name is not in upper   *)
(* case is the person of no association.                                  *)
(***************************************************************************)
FollowsImage(name) ==
    \E i \in 1..Len(page_text) :
        /\ ImageAt(page_text, i).found
        /\ HasPrefixAt(page_text, name, SkipWs(page_text, ImageAt(page_text, i).end + 1))

Member(assoc, key) == DictGet(assoc.v, <<key>>, 1)

C21_ImmediateNameRule ==
    epc = "saved" =>
        /\ FollowsImage(SmithUpper) =>
              \E k \in 1..Len(engine_file.associations) :
                  /\ Member(engine_file.associations[k], "p") = JStr(SmithUpper)
                  /\ Member(engine_file.associations[k], "c") = JNum(<<"1">>)
                  /\ Member(engine_file.associations[k], "x") = JBool("false")
        /\ FollowsImage(SmithLower) =>
              \A k \in 1..Len(engine_file.associations) :
                  Member(engine_file.associations[k], "p") # JStr(SmithLower)

(***************************************************************************)
(* C22: syntax gate.  The candidate images of a page are exactly the      *)
(* image references its text holds in the recognized markup, and the      *)
(* book's image total counts these and nothing else.                      *)
(***************************************************************************)
C22_SyntaxGate ==
    epc # "start" =>
        /\ loaded.available_images = SortTexts(FindAllImages(page_text, 1))
        /\ loaded.total_images = Len(FindAllImages(page_text, 1))

(***************************************************************************)
(* C23: after the portrait merge the file name of a (name, book id) key   *)
(* is the cross-page one wherever the cross-page dataset has a file name  *)
(* for the key, and the single-page one otherwise.                        *)
(***************************************************************************)
FileNames23(d) == [i \in 1..Len(d) |-> d[i].image_filename]

\* the file names the merge is to give for key k: with cross-page rows r
\* every single-page row (or the one missing) takes each of them in turn
Preferred(l, r) ==
    IF r = <<>> THEN FileNames23(l)
    ELSE [n \in 1..((IF l = <<>> THEN 1 ELSE Len(l)) * Len(r)) |->
             r[((n - 1) % Len(r)) + 1].image_filename]

C23_CrossPagePrecedence ==
    mpc \in {"combined", "raised"} =>
        \A k \in DOMAIN MergeKeys :
            FileNames23(WithKey(df_merged_portraits, MergeKeys[k]))
                = Preferred(WithKey(df_portrait_single, MergeKeys[k]),
                            WithKey(df_next_page_portraits, MergeKeys[k]))

C23_Witness ==
    /\ mpc = "combined"
    /\ \E i \in 1..Len(df_merged_portraits), j \in 1..Len(df_portrait_single) :
          /\ df_merged_portraits[i].image_filename = "q"
          /\ df_portrait_single[j].image_filename = "p"
          /\ df_portrait_single[j].name = df_merged_portraits[i].name
          /\ df_portrait_single[j].book_id = df_merged_portraits[i].book_id

(***************************************************************************)
(* C24: once a book has been processed and its file written, the combined *)
(* results file is complete and holds that book.                          *)
(***************************************************************************)
C24_CombinedAfterEachBook ==
    \A b \in Books :
        (/\ results[b].status = "newly_processed"
         /\ files[b] = CompleteFile(results[b]))
            => /\ combined.st = "complete"
               /\ b \in combined.books

(***************************************************************************)
(* C25: the books are taken one after the other.  While a book is being   *)
(* processed every earlier book of the run is settled (its result is      *)
(* recorded and, when it was processed, its file is written), no later    *)
(* book has been touched, and the only oracle call that can be            *)
(* outstanding is the one of the book being processed.                    *)
(***************************************************************************)
Settled(b) ==
    /\ results[b].status # "none"
    /\ results[b].status = "newly_processed" => files[b] = CompleteFile(results[b])

Untouched(b) ==
    /\ results[b] = NoRes
    /\ oracle_calls[b] = 0

C25_StrictlySequential ==
    pc \in Running =>
        /\ \A j \in 1..NumBooks :
              /\ j < idx => Settled(books[j])
              /\ j > idx => Untouched(books[j])
              /\ oracle_calls[books[j]] <= 1
        /\ pc \in {"analyze", "awaiting", "compile", "open", "dump"} => idx <= NumBooks
        /\ pc = "awaiting" => oracle_calls[books[idx]] = 1 /\ reply = NoReply

C25_Witness ==
    /\ pc = "awaiting"
    /\ idx = 2
    /\ results[books[1]].status = "newly_processed"
    /\ oracle_calls[books[1]] = 1
    /\ oracle_calls[books[2]] = 1

(***************************************************************************)
(* C26: in the summary of a finished run every book is counted in exactly *)
(* one of newly processed, skipped and errors, the three counts add up to *)
(* the number of books, and a book that failed (no page loaded, result    *)
(* not written, existing file not readable) is counted as an error only.  *)
(***************************************************************************)
\* lines 492-500: results["processing_summary"]
processing_summary ==
    [total_books |-> NumBooks,
     newly_processed |-> Len(processed_books),
     skipped_existing |-> Len(skipped_books),
     errors |-> Cardinality({b \in Books : results[b].status = "error"})]

Listed(list, b) == \E i \in 1..Len(list) : list[i] = b

Failed26(b) ==
    \/ results[b].kind = "no_pages"
    \/ results[b].status \in {"error", "skipped_error"}

C26_SummaryPartition ==
    pc = "done" =>
        /\ processing_summary.newly_processed + processing_summary.skipped_existing
              + processing_summary.errors = processing_summary.total_books
        /\ \A b \in Books :
              /\ ~(Listed(processed_books, b) /\ Listed(skipped_books, b))
              /\ ~(Listed(processed_books, b) /\ results[b].status = "error")
              /\ ~(Listed(skipped_books, b) /\ results[b].status = "error")
              /\ Failed26(b) =>
                    /\ results[b].status = "error"
                    /\ ~Listed(processed_books, b)
                    /\ ~Listed(skipped_books, b)

(***************************************************************************)
(* C27: when the oracle call of a book raises, the book goes on to be     *)
(* written with an empty association list and status newly_processed; a   *)
(* run with skip_existing that finds this file skips the book, leaves the *)
(* file alone and calls no oracle; the oracle is called again for such a  *)
(* book only in a run without skip_existing.                              *)
(***************************************************************************)
\* the file of a book whose oracle call failed
FailedOracleFile == CompleteFile(Res("full", <<>>, "newly_processed", ""))

C27_FailedBookSkippedLater ==
    [][ /\ (pc = "awaiting" /\ reply' = OracleRaises) =>
              pc' = "compile" /\ associations' = <<>>
        /\ (pc = "compile" /\ reply = OracleRaises) => pc' \in {"open", "killed"}
        /\ (pc = "dump" /\ reply = OracleRaises /\ files' # files) =>
              files'[Cur] = FailedOracleFile
        /\ (pc = "loop" /\ idx <= NumBooks /\ skip_existing
                /\ files[Cur] = FailedOracleFile) =>
              \/ pc' = "killed"
              \/ /\ pc' = "loop" /\ idx' = idx + 1
                 /\ files' = files
                 /\ oracle_calls' = oracle_calls /\ oracle_calls[Cur] = 0
                 /\ results'[Cur].status = "skipped_existing"
        /\ (pc = "analyze" /\ pc' = "awaiting" /\ files[Cur] = FailedOracleFile) =>
              ~skip_existing ]_vars

\* a run with skip_existing has skipped the first book, whose file an
\* earlier run wrote with no association, without an oracle call
C27_Witness ==
    /\ pc = "loop" /\ skip_existing /\ idx = 2
    /\ files[books[1]] = FailedOracleFile
    /\ results[books[1]].status = "skipped_existing"
    /\ results[books[1]].associations = <<>>
    /\ oracle_calls[books[1]] = 0

(***************************************************************************)
(* C28: in a run with skip_existing a book whose file exists but does not *)
(* hold a complete JSON text is skipped: it is not processed, no oracle   *)
(* call is made, the file stays as it is and the book is reported with    *)
(* status skipped_error; as the file is unchanged the same happens in the *)
(* next such run.                                                         *)
(***************************************************************************)
Unloadable(b) == files[b].st = "partial"

C28_UnloadableFileSkipped ==
    [][ /\ (pc = "loop" /\ idx <= NumBooks /\ skip_existing /\ Unloadable(Cur)) =>
              \/ pc' = "killed"
              \/ /\ pc' = "loop" /\ idx' = idx + 1
                 /\ files' = files
                 /\ oracle_calls' = oracle_calls /\ oracle_calls[Cur] = 0
                 /\ processed_books' = processed_books
                 /\ skipped_books' = Append(skipped_books, Cur)
                 /\ results'[Cur].status = "skipped_error"
        /\ \A b \in Books :
              results[b].status = "skipped_error" =>
                  /\ skip_existing /\ Unloadable(b) /\ oracle_calls[b] = 0
                  /\ files'[b] = files[b] ]_vars

\* a run with skip_existing has ended in which the first book, whose file
\* is truncated, was reported as skipped_error
C28_Witness ==
    /\ pc = "done" /\ skip_existing
    /\ results[books[1]].status = "skipped_error"
    /\ files[books[1]] = PartialFile
    /\ oracle_calls[books[1]] = 0
    /\ ~Listed(processed_books, books[1])

(***************************************************************************)
(* C29: of the sorted entries exactly those are dropped whose predecessor *)
(* has the same name and the same book id; the first entry of a book is   *)
(* kept also when the last entry of the book before has its name.         *)
(***************************************************************************)
RECURSIVE KeepAcrossBooks(_, _)
KeepAcrossBooks(rows, i) ==
    IF i > Len(rows) THEN <<>>
    ELSE (IF \/ i = 1
             \/ rows[i].name # rows[i - 1].name
             \/ rows[i].book_id # rows[i - 1].book_id
          THEN <<rows[i]>> ELSE <<>>)
             \o KeepAcrossBooks(rows, i + 1)

C29_DuplicatesWithinBookOnly ==
    (df.st = "ok" /\ df.ordered = sort_values(entries)) =>
        df.rows = KeepAcrossBooks(df.ordered, 1)

(***************************************************************************)
(* C30: the merge script does not end in an error: once it is past the    *)
(* retry merge and the portrait merge it has finished and the final       *)
(* dataset is written.                                                    *)
(***************************************************************************)
MergeSteps == {"retry", "merged", "portraits", "portraits_merged", "combined"}

C30_PassCompletes ==
    mpc \notin MergeSteps =>
        /\ mpc = "finished"
        /\ output_final.st = "written"

=============================================================================
